---- MODULE Spec2Model ----
(***************************************************************************)
(* Model of the casefile-extractor analyze pipeline.                       *)
(*                                                                         *)
(* Two handlers implement the same pipeline:                               *)
(*   "stream" : src/app/api/analyze/route.ts  (cheerio based, streams      *)
(*              STATUS:/RESULT: lines)                                     *)
(*   "json"   : src/unnamed/part_001          (regex based, one JSON       *)
(*              document)                                                  *)
(*                                                                         *)
(* Strings are sequences of tokens.  A token stands for a run of           *)
(* characters that the searched substrings ('casefilepodcast.com', '.jpg', *)
(* the code fence markers, '\n') can only match as a whole, so substring   *)
(* search on the text is contiguous-subsequence search on the tokens.      *)
(***************************************************************************)
EXTENDS Integers, Sequences, FiniteSets, TLC

\* ------------------------------------------------------------------------
\* Bounds of the model (not program constants)
\* ------------------------------------------------------------------------
\* number of distinct outbound links on the large seed fixture
NumLinks == 14
\* anchors on a generated seed page
MaxAnchors == 2
\* image elements on a generated seed page
MaxImgs == 2
\* number of string characters inside a generated JSON document
MaxContent == 3
\* source links one run may abandon
MaxFailures == 2

\* links of the gallery fixture and images on each gallery page
GalleryLinks == 9
ImagesPerGallery == 6

\* characters of the long heading
LongLen == 12001

\* bytes of a downloaded body
MaxBody == 2

\* image references per generated entity
MaxRefs == 2

\* largest image_index a generated reference names
MaxIndex == 2

\* ------------------------------------------------------------------------
\* CONFIG of the two handlers
\* ------------------------------------------------------------------------
StreamMaxSources == 12
JsonMaxSources == 10
StreamMaxImagesPerPage == 8
JsonMaxImagesPerPage == 6
\* "Skip tiny images": stated dimensions below this are icons
MinDimension == 100

\* the largest length any slice of the handlers cuts a text to
LargestCap == 12000

\* uniqueImages.slice(0, 50) of the non-streaming result
JsonMaxAllImages == 50

Endpoints == {"stream", "json"}

maxSources(ep) == IF ep = "stream" THEN StreamMaxSources ELSE JsonMaxSources

maxImagesPerPage(ep) ==
  IF ep = "stream" THEN StreamMaxImagesPerPage ELSE JsonMaxImagesPerPage

\* ------------------------------------------------------------------------
\* String helpers (JavaScript String methods on token sequences)
\* ------------------------------------------------------------------------
Range(s) == {s[k] : k \in 1..Len(s)}

\* s.startsWith(needle) at offset k (1-based)
MatchAt(s, needle, k) ==
  /\ k + Len(needle) - 1 <= Len(s)
  /\ \A j \in 1..Len(needle) : s[k + j - 1] = needle[j]

\* s.includes(needle)
Includes(s, needle) == \E k \in 1..(Len(s) + 1) : MatchAt(s, needle, k)

\* s.indexOf(needle) (1-based; 0 when absent)
IndexOf(s, needle) ==
  LET hits == {k \in 1..(Len(s) + 1) : MatchAt(s, needle, k)} IN
  IF hits = {} THEN 0
  ELSE CHOOSE k \in hits : \A j \in hits : k <= j

\* s.split(needle): the pieces between the non-overlapping occurrences of
\* needle, scanned left to right
RECURSIVE Split(_, _)
Split(s, needle) ==
  LET k == IndexOf(s, needle) IN
  IF k = 0 THEN <<s>>
  ELSE <<SubSeq(s, 1, k - 1)>> \o Split(SubSeq(s, k + Len(needle), Len(s)), needle)

\* tokens that are white space for String.prototype.trim and /\s+/
WhiteSpace == {" ", "\n"}

RECURSIVE TrimStart(_)
TrimStart(s) ==
  IF s # <<>> /\ Head(s) \in WhiteSpace THEN TrimStart(Tail(s)) ELSE s

RECURSIVE TrimEnd(_)
TrimEnd(s) ==
  IF s # <<>> /\ s[Len(s)] \in WhiteSpace
  THEN TrimEnd(SubSeq(s, 1, Len(s) - 1)) ELSE s

\* s.trim()
Trim(s) == TrimEnd(TrimStart(s))

\* s.slice(0, n)
Slice(s, n) == SubSeq(s, 1, IF Len(s) < n THEN Len(s) ELSE n)

\* s.toLowerCase(), token by token
LowerTok(t) ==
  CASE t = ".JPG" -> ".jpg"
    [] t = ".PNG" -> ".png"
    [] OTHER -> t

toLowerCase(s) == [k \in 1..Len(s) |-> LowerTok(s[k])]

\* ------------------------------------------------------------------------
\* URLs
\* ------------------------------------------------------------------------
\* A raw attribute value (href, src, content) is a record
\*   kind   "abs" absolute, "rel" root-relative, "bad" unparsable
\*   scheme "https:", "http:", "mailto:", "javascript:", "data:"
\*   host, path, query, frag : token sequences
\* A normalized URL is a record of kind "abs"; Null is the null result.
Null == [kind |-> "null", scheme |-> "", host |-> <<>>, path |-> <<>>,
         query |-> <<>>, frag |-> <<>>]

Url(scheme, host, path, query, frag) ==
  [kind |-> "abs", scheme |-> scheme, host |-> host, path |-> path,
   query |-> query, frag |-> frag]

Rel(path, query, frag) ==
  [kind |-> "rel", scheme |-> "", host |-> <<>>, path |-> path,
   query |-> query, frag |-> frag]

Bad == [kind |-> "bad", scheme |-> "", host |-> <<>>, path |-> <<>>,
        query |-> <<>>, frag |-> <<>>]

\* an attribute that is not present on the element
NoAttr == [kind |-> "none", scheme |-> "", host |-> <<>>, path |-> <<>>,
           query |-> <<>>, frag |-> <<>>]

\* URL.href: the serialised text of an absolute URL
Href(u) ==
  <<u.scheme, "//">> \o u.host \o u.path
    \o (IF u.query # <<>> THEN <<"?">> \o u.query ELSE <<>>)
    \o (IF u.frag # <<>> THEN <<"#">> \o u.frag ELSE <<>>)

\* URL.hostname
Hostname(u) == u.host

\* normalizeUrl: new URL(url, baseUrl); reject non-http(s); hash = ''
normalizeUrl(url, baseUrl) ==
  IF url.kind \notin {"abs", "rel"} \/ baseUrl.kind # "abs" THEN Null
  ELSE LET absolute == IF url.kind = "abs" THEN url
                       ELSE Url(baseUrl.scheme, baseUrl.host, url.path,
                                url.query, url.frag)
       IN IF absolute.scheme \notin {"http:", "https:"} THEN Null
          ELSE [absolute EXCEPT !.frag = <<>>]

imageExtensions == <<".jpg", ".jpeg", ".png", ".gif", ".webp">>

\* isImageUrl: some extension occurs anywhere in the lower-cased URL text
isImageUrl(u) ==
  LET lower == toLowerCase(Href(u)) IN
  \E e \in 1..Len(imageExtensions) : Includes(lower, <<imageExtensions[e]>>)

\* the hard-coded seed-site test of the link extractors
CasefileDomain == <<"casefilepodcast.com">>

IsCasefileLink(u) == Includes(Href(u), CasefileDomain)

\* ------------------------------------------------------------------------
\* Pages
\* ------------------------------------------------------------------------
\* A page (the HTML of a response body) is a record
\*   h1        text of the first <h1> (<<>> when there is none)
\*   titleTag  text of <title>
\*   hasContent  some content selector ('article', 'main', ...) matches
\*   anchors   the a[href] elements in document order:
\*               [href, inContent, parentSource]
\*   imgs      the img elements in document order:
\*               [src, dataSrc, lazySrc, width, height, alt, title,
\*                caption, context, inNav]
\*             (attributes appear in the tag in this order; caption is the
\*             figcaption / .caption text, context the number of characters
\*             of the enclosing block's text)
\*   og        content of meta[property="og:image"] (NoAttr when absent)
\*   ogTitle, ogDesc  content of og:title / og:description
\*   text      number of characters of the visible text
Anchor(href, inContent, parentSource) ==
  [href |-> href, inContent |-> inContent, parentSource |-> parentSource]

Img(src, dataSrc, width, height, alt, inNav) ==
  [src |-> src, dataSrc |-> dataSrc, lazySrc |-> NoAttr, width |-> width,
   height |-> height, alt |-> alt, title |-> <<>>, caption |-> <<>>,
   context |-> 0, inNav |-> inNav]

Page(h1, titleTag, hasContent, anchors, imgs, og, text) ==
  [h1 |-> h1, titleTag |-> titleTag, hasContent |-> hasContent,
   anchors |-> anchors, imgs |-> imgs, og |-> og, ogTitle |-> <<>>,
   ogDesc |-> <<>>, text |-> text]

\* parseInt of a stated dimension; NaN is modelled by -1, for which every
\* comparison the extractors make (> 0, < 100) must be read as false
NaN == -1

parseInt(s) ==
  CASE s = "0" -> 0
    [] s = "50" -> 50
    [] s = "99" -> 99
    [] s = "100" -> 100
    [] s = "150" -> 150
    [] OTHER -> NaN

\* the value a stated dimension denotes (for the claims); -1 when the
\* attribute is absent or not a number
Stated(s) == parseInt(s)

\* first-seen-order duplicate removal: Array.from(new Set(list))
RECURSIVE UniqAcc(_, _)
UniqAcc(list, acc) ==
  IF list = <<>> THEN acc
  ELSE UniqAcc(Tail(list),
               IF Head(list) \in Range(acc) THEN acc ELSE Append(acc, Head(list)))

Uniq(list) == UniqAcc(list, <<>>)

\* ------------------------------------------------------------------------
\* Title extraction
\* ------------------------------------------------------------------------
\* stream: h1 text trimmed || title text before '|' trimmed || literal
StreamEpisodeTitle(page) ==
  IF Trim(page.h1) # <<>> THEN Trim(page.h1)
  ELSE IF Trim(Split(page.titleTag, <<"|">>)[1]) # <<>>
       THEN Trim(Split(page.titleTag, <<"|">>)[1])
       ELSE <<"Unknown Episode">>

\* json: /<h1[^>]*>([^<]+)<\/h1>/ then /<title[^>]*>([^<]+)<\/title>/
extractTitle(page) ==
  IF page.h1 # <<>> THEN Trim(page.h1)
  ELSE IF page.titleTag # <<>> THEN Trim(Split(page.titleTag, <<"|">>)[1])
       ELSE <<"Untitled">>

\* stream, source pages: h1 trimmed || title trimmed || 'Untitled'
StreamSourceTitle(page) ==
  IF Trim(page.h1) # <<>> THEN Trim(page.h1)
  ELSE IF Trim(page.titleTag) # <<>> THEN Trim(page.titleTag)
       ELSE <<"Untitled">>

\* ------------------------------------------------------------------------
\* Link extraction
\* ------------------------------------------------------------------------
\* the normalized targets of the given anchors that pass the filter
RECURSIVE LinkTargets(_, _)
LinkTargets(anchors, baseUrl) ==
  IF anchors = <<>> THEN <<>>
  ELSE LET normalized == normalizeUrl(Head(anchors).href, baseUrl)
           rest == LinkTargets(Tail(anchors), baseUrl)
       IN IF normalized # Null /\ ~IsCasefileLink(normalized)
          THEN <<normalized>> \o rest ELSE rest

\* StreamSourceLinks without the slice(0, CONFIG.maxSources)
StreamSourceLinksNoCap(page, url) ==
  LET InRegion(a) == ~page.hasContent \/ a.inContent
      InSourceSection(a) == a.parentSource
      first == LinkTargets(SelectSeq(page.anchors, InRegion), url)
      second == LinkTargets(SelectSeq(page.anchors, InSourceSection), url)
  IN Uniq(first \o second)

\* StreamSourceLinks gathering into an array instead of a Set
StreamSourceLinksNoSet(page, url) ==
  LET InRegion(a) == ~page.hasContent \/ a.inContent
      InSourceSection(a) == a.parentSource
      first == LinkTargets(SelectSeq(page.anchors, InRegion), url)
      second == LinkTargets(SelectSeq(page.anchors, InSourceSection), url)
  IN Slice(first \o second, StreamMaxSources)

\* stream: anchors of the content region (of the body when there is none),
\* then anchors anywhere whose parent text mentions source / reference
StreamSourceLinks(page, url) ==
  LET InRegion(a) == ~page.hasContent \/ a.inContent
      InSourceSection(a) == a.parentSource
      first == LinkTargets(SelectSeq(page.anchors, InRegion), url)
      second == LinkTargets(SelectSeq(page.anchors, InSourceSection), url)
  IN Slice(Uniq(first \o second), StreamMaxSources)

\* json: every anchor of the document
extractLinks(page, baseUrl) ==
  Slice(Uniq(LinkTargets(page.anchors, baseUrl)), JsonMaxSources)

sourceLinksOf(ep, page, url) ==
  IF ep = "stream" THEN StreamSourceLinks(page, url)
  ELSE extractLinks(page, url)

\* ------------------------------------------------------------------------
\* Image extraction
\* ------------------------------------------------------------------------
Min(a, b) == IF a < b THEN a ELSE b

Candidate(url, alt, caption, context, pageUrl, pageTitle) ==
  [url |-> url, alt |-> alt, caption |-> caption, context |-> context,
   sourcePageUrl |-> pageUrl, sourcePageTitle |-> pageTitle]

\* a || b || c on attribute values (absent is falsy)
FirstAttr(img) ==
  IF img.src.kind # "none" THEN img.src
  ELSE IF img.dataSrc.kind # "none" THEN img.dataSrc
       ELSE img.lazySrc

\* stream: "Skip tiny images"
\*   width = parseInt(attr('width') || '0'), same for height
StreamIsTiny(img) ==
  LET width == IF img.width = "" THEN parseInt("0") ELSE parseInt(img.width)
      height == IF img.height = "" THEN parseInt("0") ELSE parseInt(img.height)
  IN \/ (width # NaN /\ width > 0 /\ width < MinDimension)
     \/ (height # NaN /\ height > 0 /\ height < MinDimension)

\* stream: the $('img').each callback over the remaining elements
RECURSIVE StreamImgLoop(_, _, _, _)
StreamImgLoop(imgs, images, pageUrl, pageTitle) ==
  IF imgs = <<>> THEN images
  ELSE IF Len(images) >= StreamMaxImagesPerPage THEN images
  ELSE LET img == Head(imgs)
           src == FirstAttr(img)
           imageUrl == normalizeUrl(src, pageUrl)
           next ==
             IF src.kind = "none" THEN images
             ELSE IF imageUrl = Null \/ ~isImageUrl(imageUrl) THEN images
             ELSE IF StreamIsTiny(img) THEN images
             ELSE Append(images,
                    Candidate(imageUrl,
                              IF img.alt # <<>> THEN img.alt ELSE img.title,
                              img.caption, Min(img.context, 250),
                              pageUrl, pageTitle))
       IN StreamImgLoop(Tail(imgs), next, pageUrl, pageTitle)

\* extractImagesFromPage without the length test before the Open-Graph image
extractImagesFromPageOgAlways(page, pageUrl, pageTitle) ==
  LET NotRemoved(img) == ~img.inNav
      images == StreamImgLoop(SelectSeq(page.imgs, NotRemoved), <<>>,
                              pageUrl, pageTitle)
      imageUrl == normalizeUrl(page.og, pageUrl)
  IN IF /\ page.og.kind # "none"
        /\ imageUrl # Null
        /\ isImageUrl(imageUrl)
     THEN Append(images, Candidate(imageUrl, page.ogTitle, page.ogDesc, 0,
                                   pageUrl, pageTitle))
     ELSE images

\* stream: extractImagesFromPage
extractImagesFromPage(page, pageUrl, pageTitle) ==
  LET NotRemoved(img) == ~img.inNav
      images == StreamImgLoop(SelectSeq(page.imgs, NotRemoved), <<>>,
                              pageUrl, pageTitle)
      imageUrl == normalizeUrl(page.og, pageUrl)
  IN IF /\ page.og.kind # "none"
        /\ Len(images) < StreamMaxImagesPerPage
        /\ imageUrl # Null
        /\ isImageUrl(imageUrl)
     THEN Append(images, Candidate(imageUrl, page.ogTitle, page.ogDesc, 0,
                                   pageUrl, pageTitle))
     ELSE images

\* json: the src the regex /<img[^>]+src=["']([^"']+)["'][^>]*>/ captures:
\* [^>]+ is greedy, so the last src-like attribute of the tag
LastSrcAttr(img) ==
  IF img.lazySrc.kind # "none" THEN img.lazySrc
  ELSE IF img.dataSrc.kind # "none" THEN img.dataSrc
       ELSE img.src

\* json: width = /width=["']?(\d+)/ ? parseInt : 999; if (width < 100) skip
JsonIsTiny(img) ==
  LET width == IF parseInt(img.width) = NaN THEN 999 ELSE parseInt(img.width)
  IN width < MinDimension

\* json: the while loop of extractImages over the remaining matches
RECURSIVE JsonImgLoop(_, _, _, _)
JsonImgLoop(imgs, images, pageUrl, pageTitle) ==
  IF imgs = <<>> THEN images
  ELSE IF Len(images) >= JsonMaxImagesPerPage THEN images
  ELSE LET img == Head(imgs)
           imageUrl == normalizeUrl(LastSrcAttr(img), pageUrl)
           next ==
             IF imageUrl = Null \/ ~isImageUrl(imageUrl) THEN images
             ELSE IF JsonIsTiny(img) THEN images
             ELSE Append(images,
                    Candidate(imageUrl, img.alt, <<>>, 0, pageUrl, pageTitle))
       IN JsonImgLoop(Tail(imgs), next, pageUrl, pageTitle)

\* json: extractImages
extractImages(page, pageUrl, pageTitle) ==
  LET HasSrc(img) == LastSrcAttr(img).kind # "none"
      images == JsonImgLoop(SelectSeq(page.imgs, HasSrc), <<>>,
                            pageUrl, pageTitle)
      imageUrl == normalizeUrl(page.og, pageUrl)
  IN IF /\ page.og.kind # "none"
        /\ Len(images) < JsonMaxImagesPerPage
        /\ imageUrl # Null
        /\ isImageUrl(imageUrl)
     THEN Append(images, Candidate(imageUrl, pageTitle, <<>>, 0,
                                   pageUrl, pageTitle))
     ELSE images

imagesOf(ep, page, pageUrl, pageTitle) ==
  IF ep = "stream" THEN extractImagesFromPage(page, pageUrl, pageTitle)
  ELSE extractImages(page, pageUrl, pageTitle)

\* ------------------------------------------------------------------------
\* Deduplication (the seenUrls loop of both handlers)
\* ------------------------------------------------------------------------
\* the seenUrls loop without seenUrls.add(img.url)
RECURSIVE DedupLoopNoAdd(_, _, _)
DedupLoopNoAdd(allImgs, seenUrls, uniq) ==
  IF allImgs = <<>> THEN uniq
  ELSE LET img == Head(allImgs) IN
       IF img.url \notin seenUrls
       THEN DedupLoopNoAdd(Tail(allImgs), seenUrls, Append(uniq, img))
       ELSE DedupLoopNoAdd(Tail(allImgs), seenUrls, uniq)

\* DedupLoop that overwrites the kept record with a later duplicate
RECURSIVE DedupLoopKeepLast(_, _, _)
DedupLoopKeepLast(allImgs, seenUrls, uniq) ==
  IF allImgs = <<>> THEN uniq
  ELSE LET img == Head(allImgs) IN
       IF img.url \notin seenUrls
       THEN DedupLoopKeepLast(Tail(allImgs), seenUrls \cup {img.url},
                              Append(uniq, img))
       ELSE DedupLoopKeepLast(Tail(allImgs), seenUrls,
              [k \in 1..Len(uniq) |->
                 IF uniq[k].url = img.url THEN img ELSE uniq[k]])

RECURSIVE DedupLoop(_, _, _)
DedupLoop(allImgs, seenUrls, uniq) ==
  IF allImgs = <<>> THEN uniq
  ELSE LET img == Head(allImgs) IN
       IF img.url \notin seenUrls
       THEN DedupLoop(Tail(allImgs), seenUrls \cup {img.url}, Append(uniq, img))
       ELSE DedupLoop(Tail(allImgs), seenUrls, uniq)

Dedup(allImgs) == DedupLoop(allImgs, {}, <<>>)

\* ------------------------------------------------------------------------
\* Code-fence stripping and parsing of the model's text
\* ------------------------------------------------------------------------
\* The text is a token sequence over
\*   "tick" one backtick          "json"  the word json
\*   "\n"   a line break          "p"     a character of prose
\*   "{" "}" the braces of the JSON document
\*   "a"    a character inside a JSON string value
Ticks == <<"tick", "tick", "tick">>
TicksJson == <<"tick", "tick", "tick", "json">>

\* jsonStr of callLLM / POST: split on the fence marker, take piece [1],
\* split on the three backticks and take piece [0]
StripFence(text) ==
  IF Includes(text, TicksJson) THEN Split(Split(text, TicksJson)[2], Ticks)[1]
  ELSE IF Includes(text, Ticks) THEN Split(Split(text, Ticks)[2], Ticks)[1]
       ELSE text

\* characters allowed inside the string value of a generated document
StringChars == {"a", "tick", "json"}

\* the token of a document that stands for its member "entities": [...]
EntitiesToken == "entities"

\* JSON.parse accepts the text: one object whose string value holds only
\* string characters, with or without an entities member
IsJson(str) ==
  /\ Len(str) >= 2
  /\ str[1] = "{"
  /\ str[Len(str)] = "}"
  /\ \A k \in 2..(Len(str) - 1) : str[k] \in StringChars \cup {EntitiesToken}

ParseError == <<"SyntaxError">>

\* JSON.parse: the value of the document (its string value) or an exception
JSONparse(str) == IF IsJson(str) THEN SubSeq(str, 2, Len(str) - 1) ELSE ParseError

\* JSON.parse(jsonStr.trim())
ParseResponse(text) == JSONparse(Trim(StripFence(text)))

\* ------------------------------------------------------------------------
\* The web and the model service (the environment of one request)
\* ------------------------------------------------------------------------
CdnImage == Url("https:", <<"cdn.com">>, <<"/", "shared", ".jpg">>, <<>>, <<>>)

\* a source page with a heading, a large text, one image shared with other
\* pages and one image of its own
ArticlePage ==
  Page(<<" ", "Report", " ">>, <<"Report", "|", "News">>, TRUE, <<>>,
       <<Img(CdnImage, NoAttr, "150", "150", <<"shared">>, FALSE),
         Img(Rel(<<"/", "photo", ".png">>, <<>>, <<>>), NoAttr, "", "",
             <<"own">>, FALSE)>>,
       NoAttr, 5000)

\* a source page without heading, with an icon and an Open-Graph image
WikiPage ==
  Page(<<>>, <<"Wiki", "|", "Site">>, FALSE, <<>>,
       <<Img(Rel(<<"/", "icon", ".gif">>, <<>>, <<>>), NoAttr, "50", "50",
             <<>>, FALSE)>>,
       CdnImage, 100)

GalleryHost == <<"gallery.com">>

\* a gallery page: ImagesPerGallery images of its own, named after the page,
\* followed by the image shared with other pages
GalleryPage(u) ==
  Page(<<"Gallery">>, <<>>, TRUE, <<>>,
       [k \in 1..ImagesPerGallery |->
          Img(Rel(<<"/", u.path[2], "-", ToString(k), ".jpg">>, <<>>, <<>>),
              NoAttr, "", "", <<"plate">>, FALSE)]
         \o <<Img(CdnImage, NoAttr, "", "", <<"again">>, FALSE)>>,
       NoAttr, 200)

\* the body served at a source URL
Web(u) ==
  IF u.host = <<"wiki.org">> THEN WikiPage
  ELSE IF u.host = GalleryHost THEN GalleryPage(u)
       ELSE ArticlePage

\* ------------------------------------------------------------------------
\* State of one request
\* ------------------------------------------------------------------------
VARIABLES
  endpoint,      \* which handler serves the request
  url,           \* the url field of the request body (NoAttr when missing)
  apiKey,        \* process.env.ANTHROPIC_API_KEY is set
  bodyOk,        \* request.json() succeeds
  seedPage,      \* the page the seed URL serves
  pc,            \* position of the handler
  out,           \* messages passed to send, in order (stream)
  closed,        \* controller.close() was called (stream)
  payload,       \* the final payload (RESULT body / JSON response)
  seedOutcome,   \* outcome of the seed fetch
  episodeTitle,
  episodeText,   \* length of the episode text
  sourceLinks,
  i,             \* 1-based index of the link the crawl loop is at
  sourcePages,
  allImages,
  uniqueImages,
  skipped,       \* indices of the links the loop abandoned
  fetched,       \* URLs handed to fetch, in order
  delays,        \* number of delay() calls
  prompt,        \* the fields interpolated into the prompt
  llmCalls,      \* number of calls of the model service
  responseText,  \* text the model service returned
  llmResult,     \* value parsed from it
  llmEntities,   \* llmResult.entities || []
  log            \* the awaited steps of the run, in order

\* state of one request of the download endpoint (GET)
VARIABLES
  imageUrl,      \* the url search parameter
  dlPc,          \* position in the GET handler
  upstream,      \* what the fetch of imageUrl produced
  dlFetches,     \* number of outbound fetches of the GET handler
  reply          \* the response of the GET handler

analyze == <<endpoint, url, apiKey, bodyOk, seedPage, pc, out, closed, payload,
             seedOutcome, episodeTitle, episodeText, sourceLinks, i,
             sourcePages, allImages, prompt,
             uniqueImages, skipped, fetched, delays, llmCalls, responseText,
             llmResult, llmEntities, log>>

download == <<imageUrl, dlPc, upstream, dlFetches, reply>>

vars == <<analyze, download>>

request == <<endpoint, url, apiKey, bodyOk, seedPage>>
crawl == <<episodeTitle, episodeText, sourceLinks, i, sourcePages, allImages,
          skipped>>
model == <<uniqueImages, prompt, llmCalls, responseText, llmResult,
          llmEntities>>

\* fields: the keys of the JSON object that is sent
NoPayload == [kind |-> "none", fields |-> {}, error |-> <<>>, status |-> 0,
              title |-> <<>>, entities |-> <<>>, allImages |-> <<>>]

\* ErrorPayload that also carries what was gathered so far
ErrorPayloadWithGathered(msg, status) ==
  [kind |-> "error", fields |-> {"error", "episode", "allImages"},
   error |-> msg, status |-> status, title |-> episodeTitle,
   entities |-> <<>>,
   allImages |-> [k \in 1..Len(allImages) |-> allImages[k].url]]

ErrorPayload(msg, status) ==
  [kind |-> "error", fields |-> {"error"}, error |-> msg, status |-> status,
   title |-> <<>>, entities |-> <<>>, allImages |-> <<>>]

\* the image records of the result: url, alt, caption, sourcePageUrl,
\* attribution (hostname of the source page)
ResultImage(img) ==
  [url |-> img.url, alt |-> img.alt, caption |-> img.caption,
   sourcePageUrl |-> img.sourcePageUrl,
   attribution |-> Hostname(img.sourcePageUrl)]

\* a || '(none)'
OrNone(text) == IF text = <<>> THEN <<"(none)">> ELSE text

NoPrompt ==
  [episodeTitle |-> <<>>, episodeText |-> 0, sources |-> <<>>, images |-> <<>>]

\* stream: the fields buildPrompt interpolates; page texts and contexts by
\* their length
StreamBuildPrompt(title, text, pages, images) ==
  [episodeTitle |-> title,
   episodeText |-> Min(text, 10000),
   sources |-> [k \in 1..Min(Len(pages), 8) |->
                  [title |-> pages[k].title, url |-> pages[k].url,
                   text |-> Min(pages[k].text, 2500)]],
   images |-> [k \in 1..Len(images) |->
                 [url |-> images[k].url, alt |-> OrNone(images[k].alt),
                  caption |-> OrNone(images[k].caption),
                  context |-> Min(images[k].context, 200),
                  sourcePageTitle |-> images[k].sourcePageTitle,
                  sourcePageUrl |-> images[k].sourcePageUrl]]]

\* json: the fields buildPrompt interpolates (no url of the source page, no
\* caption and no context)
JsonBuildPrompt(title, text, pages, images) ==
  [episodeTitle |-> title,
   episodeText |-> Min(text, 8000),
   sources |-> [k \in 1..Min(Len(pages), 6) |->
                  [title |-> pages[k].title, url |-> Null,
                   text |-> Min(pages[k].text, 2000)]],
   images |-> [k \in 1..Min(Len(images), 30) |->
                 [url |-> images[k].url, alt |-> OrNone(images[k].alt),
                  caption |-> <<>>, context |-> 0,
                  sourcePageTitle |-> images[k].sourcePageTitle,
                  sourcePageUrl |-> Null]]]

buildPrompt(ep, title, text, pages, images) ==
  IF ep = "stream" THEN StreamBuildPrompt(title, text, pages, images)
  ELSE JsonBuildPrompt(title, text, pages, images)

\* an image reference of an entity as the model returns it
\*   kind "index"   an object with a numeric image_index
\*   kind "missing" an object without image_index
\*   kind "null"    a null element of the images array
ImgRef(kind, image_index) ==
  [kind |-> kind, image_index |-> image_index, relevance |-> <<"r">>]

Entity(name, images) ==
  [name |-> name, description |-> <<"d">>, images |-> images]

Undefined == [kind |-> "undefined"]

\* uniqueImages[imgRef.image_index]: the element or undefined (0-based index)
ResolveOffByOne(uniq, imgRef) ==
  IF /\ imgRef.kind = "index"
     /\ imgRef.image_index >= 1
     /\ imgRef.image_index <= Len(uniq)
  THEN uniq[imgRef.image_index]
  ELSE Undefined

\* uniqueImages[imgRef.image_index]: the element or undefined (0-based index)
Resolve(uniq, imgRef) ==
  IF /\ imgRef.kind = "index"
     /\ imgRef.image_index >= 0
     /\ imgRef.image_index < Len(uniq)
  THEN uniq[imgRef.image_index + 1]
  ELSE Undefined

\* the callback of (entity.images || []).map: null for an unresolved index
ShapeImage(uniq, imgRef) ==
  LET img == Resolve(uniq, imgRef) IN
  IF img = Undefined THEN Undefined
  ELSE [url |-> img.url, alt |-> img.alt, caption |-> img.caption,
        sourcePageUrl |-> img.sourcePageUrl,
        attribution |-> Hostname(img.sourcePageUrl),
        relevance |-> imgRef.relevance]

\* (entity.images || []).map(...).filter(Boolean)
ShapeImages(uniq, images) ==
  SelectSeq([k \in 1..Len(images) |-> ShapeImage(uniq, images[k])],
            LAMBDA shaped : shaped # Undefined)

\* (llmResult.entities || []).map(...)
ShapeEntities(uniq, entities) ==
  [k \in 1..Len(entities) |->
     [name |-> entities[k].name, description |-> entities[k].description,
      images |-> ShapeImages(uniq, entities[k].images)]]

\* reading imgRef.image_index of a null element throws a TypeError
ShapingThrows(entities) ==
  \E k \in 1..Len(entities) :
    \E r \in 1..Len(entities[k].images) :
      entities[k].images[r].kind = "null"

\* ResultPayload without the slice of the non-streaming endpoint
ResultPayloadNoSlice(ep, title, uniq, entities) ==
  [kind |-> "result", fields |-> {"episode", "summary", "entities", "allImages"},
   error |-> <<>>, status |-> 200, title |-> title,
   entities |-> ShapeEntities(uniq, entities),
   allImages |-> [k \in 1..Len(uniq) |-> ResultImage(uniq[k])]]

\* stream: all unique images; json: uniqueImages.slice(0, 50)
ResultPayload(ep, title, uniq, entities) ==
  LET listed == IF ep = "stream" THEN uniq ELSE Slice(uniq, JsonMaxAllImages) IN
  [kind |-> "result", fields |-> {"episode", "summary", "entities", "allImages"},
   error |-> <<>>, status |-> 200, title |-> title,
   entities |-> ShapeEntities(uniq, entities),
   allImages |-> [k \in 1..Len(listed) |-> ResultImage(listed[k])]]

\* send(msg): controller.enqueue(encoder.encode(msg + '\n'))
send(stream, msg) == Append(stream, msg)

Status(text) == <<"STATUS:">> \o text

\* 'RESULT:' + JSON.stringify(p): JSON.stringify escapes every line break,
\* so the serialised payload is one token without "\n"
Result(p) == <<"RESULT:", IF p.kind = "error" THEN "{error}" ELSE "{result}">>

\* a final payload is delivered and the handler returns:
\* stream  send('RESULT:' + ...); controller.close(); return
\* json    return NextResponse.json(...)
Finish(p) ==
  /\ pc' = "done"
  /\ payload' = p
  /\ IF endpoint = "stream"
     THEN out' = send(out, Result(p)) /\ closed' = TRUE
     ELSE UNCHANGED <<out, closed>>

\* the outer catch of the handler
Uncaught(err) ==
  Finish(IF endpoint = "stream"
         THEN ErrorPayload(<<"Unexpected error: ">> \o err, 200)
         ELSE ErrorPayload(<<"Server error: ">> \o err, 500))

\* ------------------------------------------------------------------------
\* Requests the model draws from
\* ------------------------------------------------------------------------
CasefileUrl ==
  Url("https:", <<"casefilepodcast.com">>, <<"/", "case-1">>, <<>>, <<>>)

OtherUrl == Url("https:", <<"example.com">>, <<"/", "ep1">>, <<>>, <<>>)

\* sequences over S of length at most n
SeqUpTo(S, n) == UNION {[1..k -> S] : k \in 0..n}

\* heading texts of the generated title pages
TitleTexts ==
  {<<"Case 1">>, <<" ", "Case 1", " ">>, <<"Case", "\n", "One">>,
   <<"Case", "\n", "RESULT:", "{}">>, <<" ">>}

TitlePages ==
  {Page(h, <<"Case 1", "|", "Casefile">>, TRUE, <<>>, <<>>, NoAttr, 20000) :
     h \in TitleTexts}
  \cup {Page(<<>>, t, TRUE, <<>>, <<>>, NoAttr, 10) :
          t \in {<<>>, <<" ", "|", "Casefile">>}}

\* href values of the generated link pages
Hrefs ==
  {Rel(<<"/", "about">>, <<>>, <<>>),
   Url("https:", <<"www.", "casefilepodcast.com">>, <<"/", "case-2">>, <<>>, <<>>),
   Url("https:", <<"news.com">>, <<"/", "story">>, <<>>, <<>>),
   Url("https:", <<"news.com">>, <<"/", "story">>, <<>>, <<"top">>),
   Url("http:", <<"wiki.org">>, <<"/", "share">>,
       <<"u=", "casefilepodcast.com">>, <<>>),
   Url("mailto:", <<>>, <<"tips@", "casefilepodcast.com">>, <<>>, <<>>),
   Bad}

Anchors ==
  {Anchor(h, TRUE, FALSE) : h \in Hrefs}
  \cup {Anchor(Url("https:", <<"wiki.org">>, <<"/", "ref">>, <<>>, <<>>), FALSE, b) :
          b \in BOOLEAN}

LinkPages ==
  {Page(<<"Case 1">>, <<>>, TRUE, a, <<>>, NoAttr, 500) :
     a \in SeqUpTo(Anchors, MaxAnchors)}
  \cup {Page(<<"Case 1">>, <<>>, FALSE, <<a>>, <<>>, NoAttr, 500) : a \in Anchors}

PathTok ==
  <<"p1", "p2", "p3", "p4", "p5", "p6", "p7", "p8", "p9", "p10", "p11", "p12",
    "p13", "p14", "p15", "p16", "p17", "p18", "p19", "p20">>

\* the large fixture: NumLinks distinct outbound links
BigLinkPage ==
  Page(<<"Case 1">>, <<>>, TRUE,
       [k \in 1..NumLinks |->
          Anchor(Url("https:",
                     IF k % 3 = 0 THEN <<"wiki.org">> ELSE <<"news.com">>,
                     <<"/", PathTok[k]>>, <<>>, <<>>), TRUE, FALSE)],
       <<>>, NoAttr, 500)

\* stated (width, height) pairs of the generated image elements
Dims ==
  {<<"", "">>, <<"150", "150">>, <<"50", "50">>, <<"150", "50">>,
   <<"50", "150">>, <<"", "50">>, <<"0", "">>, <<"100", "100">>,
   <<"99", "auto">>}

Photo == Rel(<<"/", "img", "photo", ".jpg">>, <<>>, <<>>)

\* image elements that differ in their stated dimensions
DimImgs == {Img(Photo, NoAttr, d[1], d[2], <<"photo">>, FALSE) : d \in Dims}

\* image elements that differ in their source attributes
SrcImgs ==
  {Img(CdnImage, NoAttr, "", "", <<>>, b) : b \in BOOLEAN}
  \cup {Img(src, NoAttr, "", "", <<"alt">>, FALSE) :
          src \in {Url("https:", <<"x.com">>, <<"/", "view">>,
                       <<"file=", "a", ".jpg">>, <<>>),
                   Url("https:", <<"x.com">>, <<"/", "b", ".JPG">>, <<>>, <<"f">>),
                   Url("https:", <<"x.com">>, <<"/", "c", ".png", ".html">>,
                       <<>>, <<>>),
                   Url("data:", <<>>, <<"image/png;base64">>, <<>>, <<>>),
                   Rel(<<"/", "doc", ".pdf">>, <<>>, <<>>)}}
  \cup {Img(NoAttr, Photo, "", "", <<>>, FALSE),
        Img(Rel(<<"/", "spacer", ".gif">>, <<>>, <<>>), Photo, "50", "",
            <<>>, FALSE)}

ImagePages ==
  {Page(<<"Case 1">>, <<>>, TRUE, <<>>, m, NoAttr, 500) :
     m \in SeqUpTo(DimImgs, MaxImgs) \cup SeqUpTo(SrcImgs, MaxImgs)}
  \cup {Page(<<"Case 1">>, <<>>, TRUE, <<>>, <<m>>, CdnImage, 500) :
          m \in DimImgs \cup SrcImgs}

\* the large fixture: more acceptable images than either per-page cap
BigImagePage ==
  Page(<<"Case 1">>, <<>>, TRUE, <<>>,
       [k \in 1..10 |->
          Img(Rel(<<"/", PathTok[k], ".jpg">>, <<>>, <<>>), NoAttr, "", "",
              <<>>, FALSE)],
       CdnImage, 500)

\* the gallery fixture: GalleryLinks links to gallery pages, whose images
\* together exceed the cap of the non-streaming result list
GallerySeed ==
  Page(<<"Case 1">>, <<>>, TRUE,
       [k \in 1..GalleryLinks |->
          Anchor(Url("https:", GalleryHost, <<"/", PathTok[k]>>, <<>>, <<>>),
                 TRUE, FALSE)],
       <<Img(CdnImage, NoAttr, "", "", <<"shared">>, FALSE)>>, NoAttr, 500)

\* a page without links whose heading is longer than every cap of the code
LongPage ==
  Page([k \in 1..LongLen |-> "x"], <<>>, TRUE, <<>>,
       <<Img(CdnImage, NoAttr, "", "", <<>>, FALSE)>>, NoAttr, 20000)

\* a page that links to the page at /ep1 of its own site (an in-page
\* anchor) and to one other site
SelfLinkPage ==
  Page(<<"Case 1">>, <<>>, TRUE,
       <<Anchor(Rel(<<"/", "ep1">>, <<>>, <<"sources">>), TRUE, FALSE),
         Anchor(Url("https:", <<"news.com">>, <<"/", "story">>, <<>>, <<>>),
                TRUE, FALSE)>>,
       <<>>, NoAttr, 500)

\* the fixture the rejected requests and the model-response cases use
BasePage ==
  Page(<<"Case 1">>, <<"Case 1", "|", "Casefile">>, TRUE,
       <<Anchor(Url("https:", <<"news.com">>, <<"/", "story">>, <<>>, <<>>),
                TRUE, FALSE)>>,
       <<Img(CdnImage, NoAttr, "150", "150", <<"shared">>, FALSE),
         Img(Photo, NoAttr, "50", "50", <<"icon">>, FALSE)>>,
       NoAttr, 500)

Request(u, key, ok, page) ==
  [url |-> u, apiKey |-> key, bodyOk |-> ok, page |-> page]

Requests ==
  {Request(NoAttr, k, TRUE, BasePage) : k \in BOOLEAN}
  \cup {Request(u, k, FALSE, BasePage) : u \in {NoAttr, CasefileUrl}, k \in BOOLEAN}
  \cup {Request(u, FALSE, TRUE, BasePage) : u \in {CasefileUrl, Bad}}
  \cup {Request(Bad, TRUE, TRUE, BasePage)}
  \cup {Request(u, TRUE, TRUE, pg) :
          u \in {CasefileUrl, OtherUrl},
          pg \in {BasePage, BigLinkPage} \cup TitlePages \cup LinkPages}
  \cup {Request(CasefileUrl, TRUE, TRUE, pg) :
          pg \in {BigImagePage, GallerySeed, LongPage} \cup ImagePages}
  \cup {Request(u, TRUE, TRUE, SelfLinkPage) : u \in {CasefileUrl, OtherUrl}}

\* JSON documents the model may return
JsonDocs == {<<"{">> \o c \o <<"}">> : c \in SeqUpTo(StringChars, MaxContent)}

WrapJson(doc) == TicksJson \o <<"\n">> \o doc \o <<"\n">> \o Ticks

WrapPlain(doc) == Ticks \o <<"\n">> \o doc \o <<"\n">> \o Ticks

Prose == <<"p", "\n">>

\* the ways a document is presented: bare, fenced, fenced after prose
Presentations(doc) ==
  {doc, WrapJson(doc), WrapPlain(doc), Prose \o WrapJson(doc),
   Prose \o WrapPlain(doc), Prose \o doc}

SimpleDoc == <<"{", "a", "}">>

\* a document with an entities member
EntityDoc == <<"{", EntitiesToken, "}">>

\* image references the model may return
Refs ==
  {ImgRef("index", k) : k \in (0 - 1)..MaxIndex} \cup {ImgRef("missing", 0)}

NullRef == ImgRef("null", 0)

\* entity lists the model may return: one entity with every short sequence
\* of references, two entities, and one entity holding a null reference
EntityLists ==
  {<<Entity(<<"n1">>, refs)>> : refs \in SeqUpTo(Refs, MaxRefs)}
  \cup {<<Entity(<<"n1">>, <<ImgRef("index", 0)>>),
          Entity(<<"n2">>, <<ImgRef("index", MaxIndex), ImgRef("index", 0)>>)>>,
        <<Entity(<<"n1">>, <<ImgRef("index", 0), NullRef>>)>>,
        <<>>}

\* a position late in a long list of images
FarIndex == 52

\* a document with two members, whose entity refers to the first image and to
\* a late one
FarValue == <<EntitiesToken, EntitiesToken>>

FarDoc == <<"{">> \o FarValue \o <<"}">>

FarEntityLists ==
  {<<Entity(<<"n1">>, <<ImgRef("index", 0), ImgRef("index", FarIndex)>>)>>}

\* the entities a parsed value may carry
EntitiesOf(value) ==
  IF value = FarValue THEN FarEntityLists
  ELSE IF \E k \in 1..Len(value) : value[k] = EntitiesToken THEN EntityLists
       ELSE {<<>>}

\* texts the model service may answer with for a seed page
ResponseTexts(page) ==
  IF page = BasePage
  THEN UNION {Presentations(d) : d \in JsonDocs}
       \cup {EntityDoc, WrapJson(EntityDoc)}
  ELSE IF page = GallerySeed THEN {SimpleDoc, WrapJson(SimpleDoc), Prose, FarDoc}
       ELSE {SimpleDoc, WrapJson(SimpleDoc), Prose}

\* searchParams.get('url'): null when the parameter is absent
NoParam == [given |-> FALSE, text |-> <<>>]

Param(text) == [given |-> TRUE, text |-> text]

\* the download handler before a request
NoUpstream ==
  [kind |-> "none", status |-> 0, contentType |-> <<>>, body |-> <<>>]

NoReply ==
  [kind |-> "none", status |-> 0, error |-> <<>>, contentType |-> <<>>,
   disposition |-> <<>>, body |-> <<>>]

DownloadStart(u) ==
  /\ imageUrl = u
  /\ dlPc = "start"
  /\ upstream = NoUpstream
  /\ dlFetches = 0
  /\ reply = NoReply

\* the analyze handler at the start of the request r on the endpoint ep
AnalyzeStart(ep, r) ==
  /\ endpoint = ep
  /\ url = r.url
  /\ apiKey = r.apiKey
  /\ bodyOk = r.bodyOk
  /\ seedPage = r.page
  /\ pc = "start"
  /\ out = <<>>
  /\ closed = FALSE
  /\ payload = NoPayload
  /\ seedOutcome = "none"
  /\ episodeTitle = <<>>
  /\ episodeText = 0
  /\ sourceLinks = <<>>
  /\ i = 1
  /\ sourcePages = <<>>
  /\ allImages = <<>>
  /\ uniqueImages = <<>>
  /\ prompt = NoPrompt
  /\ skipped = {}
  /\ fetched = <<>>
  /\ delays = 0
  /\ llmCalls = 0
  /\ responseText = <<>>
  /\ llmResult = <<>>
  /\ llmEntities = <<>>
  /\ log = <<>>

\* one analyze request; the download endpoint is not called
Init ==
  /\ \E ep \in Endpoints, r \in Requests : AnalyzeStart(ep, r)
  /\ DownloadStart(NoParam)

\* ------------------------------------------------------------------------
\* The handler, step by step
\* ------------------------------------------------------------------------
\* await request.json() throws: the outer catch answers
RejectBody ==
  /\ pc = "start"
  /\ ~bodyOk
  /\ Uncaught(<<"SyntaxError">>)
  /\ UNCHANGED <<request, crawl, model, seedOutcome, fetched, delays>>
  /\ UNCHANGED <<log, download>>

\* if (!url)
RejectNoUrl ==
  /\ pc = "start"
  /\ bodyOk
  /\ url.kind = "none"
  /\ Finish(ErrorPayload(<<"No URL provided">>,
                         IF endpoint = "stream" THEN 200 ELSE 400))
  /\ UNCHANGED <<request, crawl, model, seedOutcome, fetched, delays>>
  /\ UNCHANGED <<log, download>>

\* if (!process.env.ANTHROPIC_API_KEY)
RejectNoKey ==
  /\ pc = "start"
  /\ bodyOk
  /\ url.kind # "none"
  /\ ~apiKey
  /\ Finish(ErrorPayload(<<"ANTHROPIC_API_KEY not configured">>,
                         IF endpoint = "stream" THEN 200 ELSE 500))
  /\ UNCHANGED <<request, crawl, model, seedOutcome, fetched, delays>>
  /\ UNCHANGED <<log, download>>

\* StartSeedFetch without the check of the credential
StartSeedFetchNoKeyCheck ==
  /\ pc = "start"
  /\ bodyOk
  /\ url.kind # "none"
  /\ pc' = "seedFetch"
  /\ out' = IF endpoint = "stream"
            THEN send(out, Status(<<"Fetching episode page...">>)) ELSE out
  /\ fetched' = Append(fetched, url)
  /\ UNCHANGED <<request, crawl, model, seedOutcome, closed, payload, delays>>
  /\ log' = log \o <<"fetch">>
  /\ UNCHANGED download

\* Step 1: the seed fetch is issued
StartSeedFetch ==
  /\ pc = "start"
  /\ bodyOk
  /\ url.kind # "none"
  /\ apiKey
  /\ pc' = "seedFetch"
  /\ out' = IF endpoint = "stream"
            THEN send(out, Status(<<"Fetching episode page...">>)) ELSE out
  /\ fetched' = Append(fetched, url)
  /\ UNCHANGED <<request, crawl, model, seedOutcome, closed, payload, delays>>
  /\ log' = log \o <<"fetch">>
  /\ UNCHANGED download

\* the seed fetch rejects (invalid URL, network error, timeout abort)
\* stream: inner catch;  json: outer catch
SeedFetchThrows ==
  /\ pc = "seedFetch"
  /\ seedOutcome' = "throw"
  /\ IF endpoint = "stream"
     THEN Finish(ErrorPayload(<<"Failed to fetch episode: ", "TypeError">>, 200))
     ELSE Uncaught(<<"TypeError">>)
  /\ UNCHANGED <<request, crawl, model, fetched, delays>>
  /\ log' = log \o <<"fail">>
  /\ UNCHANGED download

\* SeedFetchNotOk without the if (!episodeResponse.ok) check
SeedFetchNotOkIgnored ==
  /\ pc = "seedFetch"
  /\ url.kind = "abs"
  /\ seedOutcome' = "notok"
  /\ pc' = "seedBody"
  /\ UNCHANGED <<request, crawl, model, out, closed, payload, fetched, delays>>
  /\ UNCHANGED <<log, download>>

\* the seed answers with a non-2xx status
SeedFetchNotOk ==
  /\ pc = "seedFetch"
  /\ url.kind = "abs"
  /\ seedOutcome' = "notok"
  /\ Finish(ErrorPayload(
       IF endpoint = "stream"
       THEN <<"Failed to fetch episode: ", "Error: HTTP 404">>
       ELSE <<"Failed to fetch episode: HTTP ", "404">>,
       IF endpoint = "stream" THEN 200 ELSE 400))
  /\ UNCHANGED <<request, crawl, model, fetched, delays>>
  /\ log' = log \o <<"fail">>
  /\ UNCHANGED download

\* the seed answers 2xx
SeedFetchOk ==
  /\ pc = "seedFetch"
  /\ url.kind = "abs"
  /\ seedOutcome' = "ok"
  /\ pc' = "seedBody"
  /\ UNCHANGED <<request, crawl, model, out, closed, payload, fetched, delays>>
  /\ UNCHANGED <<log, download>>

\* await episodeResponse.text() rejects: the outer catch answers
SeedBodyFails ==
  /\ pc = "seedBody"
  /\ Uncaught(<<"TypeError">>)
  /\ UNCHANGED <<request, crawl, model, seedOutcome, fetched, delays>>
  /\ log' = log \o <<"fail">>
  /\ UNCHANGED download

\* the seed body is read and extracted (title, links, images)
SeedBodyRead ==
  /\ pc = "seedBody"
  /\ LET title == IF endpoint = "stream" THEN StreamEpisodeTitle(seedPage)
                  ELSE extractTitle(seedPage)
         links == sourceLinksOf(endpoint, seedPage, url)
     IN /\ episodeTitle' = title
        /\ episodeText' = IF endpoint = "stream"
                          THEN Min(seedPage.text, LargestCap)
                          ELSE seedPage.text
        /\ sourceLinks' = links
        /\ allImages' = imagesOf(endpoint, seedPage, url, title)
        /\ out' = IF endpoint = "stream"
                  THEN send(send(out, Status(<<"Found episode: ">> \o title)),
                            Status(<<"Found ", ToString(Len(links)),
                                     " source links">>))
                  ELSE out
  /\ i' = 1
  /\ sourcePages' = <<>>
  /\ pc' = "loop"
  /\ UNCHANGED <<request, model, skipped, closed, payload, seedOutcome,
                 fetched, delays>>
  /\ log' = log \o <<"read">>
  /\ UNCHANGED download

\* the links the loop iterates: json slices the list once more
loopLinks ==
  IF endpoint = "stream" THEN sourceLinks ELSE Slice(sourceLinks, JsonMaxSources)

\* LoopNext that waits only between two source fetches, not before the first
LoopNextNoFirstDelay ==
  /\ pc = "loop"
  /\ i <= Len(loopLinks)
  /\ out' = IF endpoint = "stream"
            THEN send(out, Status(<<"Crawling source ", ToString(i), "/",
                                    ToString(Len(sourceLinks)), ": ">>
                                  \o Hostname(loopLinks[i])))
            ELSE out
  /\ delays' = IF i = 1 THEN delays ELSE delays + 1
  /\ pc' = "delay"
  /\ UNCHANGED <<request, crawl, model, closed, payload, seedOutcome, fetched>>
  /\ log' = IF i = 1 THEN log ELSE log \o <<"delay">>
  /\ UNCHANGED download

\* loop head: the next link is taken and the delay starts
LoopNext ==
  /\ pc = "loop"
  /\ i <= Len(loopLinks)
  /\ out' = IF endpoint = "stream"
            THEN send(out, Status(<<"Crawling source ", ToString(i), "/",
                                    ToString(Len(sourceLinks)), ": ">>
                                  \o Hostname(loopLinks[i])))
            ELSE out
  /\ delays' = delays + 1
  /\ pc' = "delay"
  /\ UNCHANGED <<request, crawl, model, closed, payload, seedOutcome, fetched>>
  /\ log' = log \o <<"delay">>
  /\ UNCHANGED download

\* the delay elapsed: the source fetch is issued
StartSourceFetch ==
  /\ pc = "delay"
  /\ fetched' = Append(fetched, loopLinks[i])
  /\ pc' = "srcFetch"
  /\ UNCHANGED <<request, crawl, model, out, closed, payload, seedOutcome,
                 delays>>
  /\ log' = log \o <<"fetch">>
  /\ UNCHANGED download

\* Skip when the record is pushed before the response is checked
SkipKeepsRecord ==
  /\ Cardinality(skipped) < MaxFailures
  /\ skipped' = skipped \cup {i}
  /\ sourcePages' = Append(sourcePages,
       [url |-> loopLinks[i], title |-> <<"Untitled">>, text |-> 0])
  /\ i' = i + 1
  /\ pc' = "loop"
  /\ UNCHANGED <<request, model, episodeTitle, episodeText, sourceLinks,
                 allImages, out, closed, payload, seedOutcome, fetched, delays>>
  /\ log' = log \o <<"fail">>
  /\ UNCHANGED download

\* continue: this link is abandoned, the loop goes on
Skip ==
  /\ Cardinality(skipped) < MaxFailures
  /\ skipped' = skipped \cup {i}
  /\ i' = i + 1
  /\ pc' = "loop"
  /\ UNCHANGED <<request, model, episodeTitle, episodeText, sourceLinks, sourcePages,
                 allImages, out, closed, payload, seedOutcome, fetched, delays>>
  /\ log' = log \o <<"fail">>
  /\ UNCHANGED download

\* the source fetch rejects (network error, timeout): catch, continue
SourceFetchThrows == pc = "srcFetch" /\ Skip

\* if (!response.ok) continue
SourceFetchNotOk == pc = "srcFetch" /\ Skip

\* if (!contentType.includes('text/html')) continue
SourceFetchNotHtml == pc = "srcFetch" /\ Skip

\* 2xx with an HTML content type
SourceFetchOk ==
  /\ pc = "srcFetch"
  /\ pc' = "srcBody"
  /\ UNCHANGED <<request, crawl, model, out, closed, payload, seedOutcome,
                 fetched, delays>>
  /\ UNCHANGED <<log, download>>

\* await response.text() rejects: catch, continue
SourceBodyFails == pc = "srcBody" /\ Skip

\* the SourcePage record of a fetched page
SourcePageOf(ep, sourceUrl, page) ==
  IF ep = "stream"
  THEN [url |-> sourceUrl, title |-> Slice(StreamSourceTitle(page), 100),
        text |-> Min(page.text, 4000)]
  ELSE [url |-> sourceUrl, title |-> extractTitle(page),
        text |-> Min(page.text, 4000)]

\* the images extracted from a fetched source page
SourceImagesOf(ep, sourceUrl, page) ==
  IF ep = "stream"
  THEN extractImagesFromPage(page, sourceUrl, StreamSourceTitle(page))
  ELSE extractImages(page, sourceUrl, extractTitle(page))

\* SourceBodyRead assigning a fresh one-record list instead of pushing
SourceBodyReadReplaces ==
  /\ pc = "srcBody"
  /\ sourcePages' = <<SourcePageOf(endpoint, loopLinks[i], Web(loopLinks[i]))>>
  /\ allImages' = allImages
                    \o SourceImagesOf(endpoint, loopLinks[i], Web(loopLinks[i]))
  /\ i' = i + 1
  /\ pc' = "loop"
  /\ UNCHANGED <<request, model, episodeTitle, episodeText, sourceLinks, skipped, out,
                 closed, payload, seedOutcome, fetched, delays>>
  /\ log' = log \o <<"read">>
  /\ UNCHANGED download

\* the body is read: the page record and its images are appended
SourceBodyRead ==
  /\ pc = "srcBody"
  /\ sourcePages' = Append(sourcePages,
                           SourcePageOf(endpoint, loopLinks[i], Web(loopLinks[i])))
  /\ allImages' = allImages
                    \o SourceImagesOf(endpoint, loopLinks[i], Web(loopLinks[i]))
  /\ i' = i + 1
  /\ pc' = "loop"
  /\ UNCHANGED <<request, model, episodeTitle, episodeText, sourceLinks, skipped, out,
                 closed, payload, seedOutcome, fetched, delays>>
  /\ log' = log \o <<"read">>
  /\ UNCHANGED download

\* Deduplicate without waiting for the end of the loop
DeduplicateEarly ==
  /\ pc = "loop"
  /\ uniqueImages' = Dedup(allImages)
  /\ prompt' = buildPrompt(endpoint, episodeTitle, episodeText, sourcePages,
                           uniqueImages')
  /\ out' = out
  /\ llmCalls' = llmCalls + 1
  /\ pc' = "llm"
  /\ UNCHANGED <<request, crawl, responseText, llmResult, llmEntities, closed,
                 payload, seedOutcome, fetched, delays>>
  /\ log' = log \o <<"dedup", "llm">>
  /\ UNCHANGED download

\* the loop is over: deduplicate, build the prompt, call the model
Deduplicate ==
  /\ pc = "loop"
  /\ i > Len(loopLinks)
  /\ uniqueImages' = Dedup(allImages)
  /\ prompt' = buildPrompt(endpoint, episodeTitle, episodeText, sourcePages,
                           uniqueImages')
  /\ out' = IF endpoint = "stream"
            THEN send(send(send(out,
                   Status(<<"Crawled ", ToString(Len(sourcePages)),
                            " sources, found ", ToString(Len(allImages)),
                            " images">>)),
                   Status(<<ToString(Len(uniqueImages')),
                            " unique images after dedup">>)),
                   Status(<<"Analyzing with Claude...">>))
            ELSE out
  /\ llmCalls' = llmCalls + 1
  /\ pc' = "llm"
  /\ UNCHANGED <<request, crawl, responseText, llmResult, llmEntities, closed,
                 payload, seedOutcome, fetched, delays>>
  /\ log' = log \o <<"dedup", "llm">>
  /\ UNCHANGED download

\* ModelCallFails without the return after the error was sent
ModelCallFailsNoReturn ==
  /\ pc = "llm"
  /\ pc' = "done"
  /\ payload' = ResultPayload(endpoint, episodeTitle, uniqueImages, <<>>)
  /\ IF endpoint = "stream"
     THEN /\ out' = send(send(send(out,
                      Result(ErrorPayload(<<"LLM error: ", "APIError">>, 200))),
                      Status(<<"Found ", "0", " entities">>)),
                      Result(payload'))
          /\ closed' = TRUE
     ELSE UNCHANGED <<out, closed>>
  /\ UNCHANGED <<request, crawl, model, seedOutcome, fetched, delays>>
  /\ UNCHANGED <<log, download>>

\* the model call fails
\* stream: callLLM rejects, 'LLM error';  json: non-2xx, 'Claude API error'
ModelCallFails ==
  /\ pc = "llm"
  /\ Finish(IF endpoint = "stream"
            THEN ErrorPayload(<<"LLM error: ", "APIError">>, 200)
            ELSE ErrorPayload(<<"Claude API error: ", "overloaded">>, 500))
  /\ UNCHANGED <<request, crawl, model, seedOutcome, fetched, delays>>
  /\ UNCHANGED <<log, download>>

\* the model answers with a text that does not parse after fence stripping
ModelAnswersUnparsable ==
  /\ pc = "llm"
  /\ \E text \in ResponseTexts(seedPage) :
       /\ ParseResponse(text) = ParseError
       /\ responseText' = text
       /\ llmResult' = ParseError
  /\ UNCHANGED llmEntities
  /\ Finish(IF endpoint = "stream"
            THEN ErrorPayload(<<"LLM error: ">> \o ParseError, 200)
            ELSE ErrorPayload(<<"Failed to parse Claude response">>, 500))
  /\ UNCHANGED <<request, crawl, uniqueImages, prompt, llmCalls, seedOutcome, fetched,
                 delays>>
  /\ UNCHANGED <<log, download>>

\* the model's text parses into a value that carries the entities
ModelAnswer(text, value, entities) ==
  /\ value # ParseError
  /\ responseText' = text
  /\ llmResult' = value
  /\ llmEntities' = entities

\* STATUS:Found n entities
FoundStatus(entities) ==
  Status(<<"Found ", ToString(Len(entities)), " entities">>)

\* the model answers with a text that parses, shaping the result throws:
\* the outer catch reports the exception
ShapingFails ==
  /\ pc = "llm"
  /\ \E text \in ResponseTexts(seedPage) :
       LET value == ParseResponse(text) IN
       \E entities \in EntitiesOf(value) :
         /\ ModelAnswer(text, value, entities)
         /\ ShapingThrows(entities)
         /\ pc' = "done"
         /\ IF endpoint = "stream"
            THEN /\ payload' = ErrorPayload(<<"Unexpected error: ",
                                              "TypeError">>, 200)
                 /\ out' = send(send(out, FoundStatus(entities)),
                                Result(payload'))
                 /\ closed' = TRUE
            ELSE /\ payload' = ErrorPayload(<<"Server error: ", "TypeError">>,
                                            500)
                 /\ UNCHANGED <<out, closed>>
  /\ UNCHANGED <<request, crawl, uniqueImages, prompt, llmCalls, seedOutcome, fetched,
                 delays>>
  /\ UNCHANGED <<log, download>>

\* the model answers with a text that parses: the result is shaped and sent
ModelAnswersJson ==
  /\ pc = "llm"
  /\ \E text \in ResponseTexts(seedPage) :
       LET value == ParseResponse(text) IN
       \E entities \in EntitiesOf(value) :
         /\ ModelAnswer(text, value, entities)
         /\ ~ShapingThrows(entities)
         /\ pc' = "done"
         /\ payload' = ResultPayload(endpoint, episodeTitle, uniqueImages,
                                     entities)
         /\ IF endpoint = "stream"
            THEN /\ out' = send(send(out, FoundStatus(entities)),
                                Result(payload'))
                 /\ closed' = TRUE
            ELSE UNCHANGED <<out, closed>>
  /\ UNCHANGED <<request, crawl, uniqueImages, prompt, llmCalls, seedOutcome, fetched,
                 delays>>
  /\ UNCHANGED <<log, download>>

Next ==
  \/ RejectBody
  \/ RejectNoUrl
  \/ RejectNoKey
  \/ StartSeedFetch
  \/ SeedFetchThrows
  \/ SeedFetchNotOk
  \/ SeedFetchOk
  \/ SeedBodyFails
  \/ SeedBodyRead
  \/ LoopNext
  \/ StartSourceFetch
  \/ SourceFetchThrows
  \/ SourceFetchNotOk
  \/ SourceFetchNotHtml
  \/ SourceFetchOk
  \/ SourceBodyFails
  \/ SourceBodyRead
  \/ Deduplicate
  \/ ModelCallFails
  \/ ModelAnswersUnparsable
  \/ ShapingFails
  \/ ModelAnswersJson

Spec == Init /\ [][Next]_vars

\* ------------------------------------------------------------------------
\* The download endpoint (GET)
\* ------------------------------------------------------------------------
\* values of the url parameter
ImageUrls ==
  {NoParam, Param(<<>>), Param(<<"https://cdn.com/a.png">>),
   Param(<<"https://cdn.com/b">>), Param(<<"not a url">>)}

\* content types an upstream may state; <<>> is a response without the header
ContentTypes ==
  {<<>>, <<"image", "/", "png">>, <<"image", "/", "jpeg">>,
   <<"image", "/", "svg+xml">>, <<"text", "/", "html">>,
   <<"application", "/", "octet-stream">>, <<"image">>}

Bodies == SeqUpTo({"x", "y"}, MaxBody)

OkStatuses == {200, 206}

\* non-2xx statuses an upstream may answer with
NotOkStatuses == {304, 403, 404, 500, 503}

\* statuses with which a Response cannot carry a body
NullBodyStatuses == {101, 204, 205, 304}

JsonType == <<"application", "/", "json">>

\* NextResponse.json({ error }, { status })
ErrorReply(msg, status) ==
  [kind |-> "error", status |-> status, error |-> msg,
   contentType |-> JsonType, disposition |-> <<>>, body |-> <<>>]

\* response.headers.get('content-type') || 'image/jpeg'
contentTypeOf(response) ==
  IF response.contentType # <<>> THEN response.contentType
  ELSE <<"image", "/", "jpeg">>

\* contentType.split('/')[1] || 'jpg'
extensionOf(contentType) ==
  LET parts == Split(contentType, <<"/">>) IN
  IF Len(parts) >= 2 /\ parts[2] # <<>> THEN parts[2] ELSE <<"jpg">>

\* new NextResponse(buffer, { headers })
FileReply(contentType, buffer) ==
  [kind |-> "file", status |-> 200, error |-> <<>>,
   contentType |-> contentType,
   disposition |-> <<"attachment; filename=image.">> \o extensionOf(contentType),
   body |-> buffer]

DownloadFinish(r) ==
  /\ dlPc' = "done"
  /\ reply' = r

\* if (!url)
DownloadRejectNoUrl ==
  /\ dlPc = "start"
  /\ ~imageUrl.given \/ imageUrl.text = <<>>
  /\ DownloadFinish(ErrorReply(<<"No URL provided">>, 400))
  /\ UNCHANGED <<analyze, imageUrl, upstream, dlFetches>>

\* fetch(url) is issued
DownloadStartFetch ==
  /\ dlPc = "start"
  /\ imageUrl.given /\ imageUrl.text # <<>>
  /\ dlFetches' = dlFetches + 1
  /\ dlPc' = "fetch"
  /\ UNCHANGED <<analyze, imageUrl, upstream, reply>>

\* the fetch rejects (invalid URL, network error): catch
DownloadFetchThrows ==
  /\ dlPc = "fetch"
  /\ upstream' = [NoUpstream EXCEPT !.kind = "throw"]
  /\ DownloadFinish(ErrorReply(<<"Failed to fetch image">>, 500))
  /\ UNCHANGED <<analyze, imageUrl, dlFetches>>

\* if (!response.ok): the upstream status is passed on; building a response
\* with a body throws for a null-body status, and the catch answers
DownloadUpstreamNotOk ==
  /\ dlPc = "fetch"
  /\ \E status \in NotOkStatuses, type \in {<<>>, <<"text", "/", "html">>} :
       /\ upstream' = [kind |-> "response", status |-> status,
                       contentType |-> type, body |-> <<>>]
       /\ IF status \in NullBodyStatuses
          THEN DownloadFinish(ErrorReply(<<"Failed to fetch image">>, 500))
          ELSE DownloadFinish(ErrorReply(<<"HTTP ", ToString(status)>>, status))
  /\ UNCHANGED <<analyze, imageUrl, dlFetches>>

\* a 2xx response arrives: its body is awaited
DownloadUpstreamOk ==
  /\ dlPc = "fetch"
  /\ \E status \in OkStatuses, type \in ContentTypes :
       upstream' = [kind |-> "response", status |-> status,
                    contentType |-> type, body |-> <<>>]
  /\ dlPc' = "body"
  /\ UNCHANGED <<analyze, imageUrl, dlFetches, reply>>

\* await response.arrayBuffer() rejects: catch
DownloadBodyFails ==
  /\ dlPc = "body"
  /\ upstream' = [upstream EXCEPT !.kind = "throw"]
  /\ DownloadFinish(ErrorReply(<<"Failed to fetch image">>, 500))
  /\ UNCHANGED <<analyze, imageUrl, dlFetches>>

\* the body is read and sent back
DownloadBodyRead ==
  /\ dlPc = "body"
  /\ \E buffer \in Bodies :
       /\ upstream' = [upstream EXCEPT !.body = buffer]
       /\ DownloadFinish(FileReply(contentTypeOf(upstream), buffer))
  /\ UNCHANGED <<analyze, imageUrl, dlFetches>>

DownloadNext ==
  \/ DownloadRejectNoUrl
  \/ DownloadStartFetch
  \/ DownloadFetchThrows
  \/ DownloadUpstreamNotOk
  \/ DownloadUpstreamOk
  \/ DownloadBodyFails
  \/ DownloadBodyRead

\* one download request; the analyze handler is not called
DownloadInit ==
  /\ AnalyzeStart("stream", Request(NoAttr, FALSE, TRUE, BasePage))
  /\ \E u \in ImageUrls : DownloadStart(u)

DownloadSpec == DownloadInit /\ [][DownloadNext]_vars

\* ------------------------------------------------------------------------
\* Properties
\* ------------------------------------------------------------------------
InCrawl == pc \in {"loop", "delay", "srcFetch", "srcBody"}

AfterCrawl == pc = "llm" \/ (pc = "done" /\ llmCalls > 0)

\* C1: in the streaming handler the messages written are STATUS messages
\* followed by exactly one RESULT message; the RESULT is the last message,
\* the stream is closed with it, and the handler is finished exactly when
\* the stream is closed.
C1_StatusThenOneResult ==
  endpoint = "stream" =>
    /\ \A k \in 1..Len(out) : out[k][1] \in {"STATUS:", "RESULT:"}
    /\ \A k \in 1..Len(out) : out[k][1] = "RESULT:" => (k = Len(out) /\ closed)
    /\ closed => (out # <<>> /\ out[Len(out)][1] = "RESULT:")
    /\ closed <=> pc = "done"

\* a successful streamed run: several STATUS messages, then the RESULT
C1_Witness ==
  /\ endpoint = "stream"
  /\ pc = "done"
  /\ payload.kind = "result"
  /\ Len(out) > 6
  /\ skipped # {}

\* the bytes written to the response body
RECURSIVE Written(_)
Written(stream) ==
  IF stream = <<>> THEN <<>>
  ELSE Head(stream) \o <<"\n">> \o Written(Tail(stream))

\* the newline-terminated lines of a text
Lines(text) ==
  LET pieces == Split(text, <<"\n">>) IN SubSeq(pieces, 1, Len(pieces) - 1)

\* C2: every newline-terminated line of the streamed body begins with
\* STATUS: or RESULT:, whatever the title, host names and counters are.
C2_EveryLinePrefixed ==
  endpoint = "stream" =>
    \A k \in 1..Len(Lines(Written(out))) :
      /\ Lines(Written(out))[k] # <<>>
      /\ Lines(Written(out))[k][1] \in {"STATUS:", "RESULT:"}

\* C3: when the seed fetch fails the request has ended with an error, the
\* seed is the only URL ever fetched, no delay was waited and the model was
\* not called.
C3_SeedFailureIsFatal ==
  seedOutcome \in {"throw", "notok"} =>
    /\ pc = "done"
    /\ payload.kind = "error"
    /\ fetched = <<url>>
    /\ delays = 0
    /\ llmCalls = 0
    /\ sourcePages = <<>>
    /\ allImages = <<>>

\* the seed answered 404 on the json handler
C3_Witness ==
  /\ endpoint = "json"
  /\ seedOutcome = "notok"
  /\ pc = "done"
  /\ payload.status = 400

\* the links the loop is done with and did not abandon, in order
KeptLinks ==
  LET done == [k \in 1..Min(i - 1, Len(loopLinks)) |-> k]
      Kept(k) == k \notin skipped
      kept == SelectSeq(done, Kept)
  IN [k \in 1..Len(kept) |-> loopLinks[kept[k]]]

\* the accumulators of a crawl in which every link of the list is read
CrawlPages(ep, links) ==
  [k \in 1..Len(links) |-> SourcePageOf(ep, links[k], Web(links[k]))]

RECURSIVE CrawlImages(_, _)
CrawlImages(ep, links) ==
  IF links = <<>> THEN <<>>
  ELSE SourceImagesOf(ep, Head(links), Web(Head(links)))
         \o CrawlImages(ep, Tail(links))

\* C4: an abandoned link adds nothing to sourcePages and allImages and does
\* not end the request: the accumulators are those of a crawl of the list
\* without the abandoned links, every link of the list is attempted before
\* the model is called, and the deduplicated list is that of the shorter
\* crawl.
C4_SkippedLinkLeavesNoTrace ==
  (InCrawl \/ AfterCrawl) =>
    /\ sourcePages = CrawlPages(endpoint, KeptLinks)
    /\ allImages = imagesOf(endpoint, seedPage, url, episodeTitle)
                     \o CrawlImages(endpoint, KeptLinks)
    /\ AfterCrawl =>
         /\ i = Len(loopLinks) + 1
         /\ uniqueImages =
              Dedup(imagesOf(endpoint, seedPage, url, episodeTitle)
                      \o CrawlImages(endpoint, KeptLinks))

\* a run that abandoned a link, read a later one and delivered a result
C4_Witness ==
  /\ pc = "done"
  /\ payload.kind = "result"
  /\ \E k \in skipped : k < Len(loopLinks) /\ (k + 1) \notin skipped
  /\ Len(sourcePages) >= 2

SourceFetches == IF fetched = <<>> THEN 0 ELSE Len(fetched) - 1

\* C5: at most CONFIG.maxSources source fetches are attempted, and there
\* are never more SourcePage records than links attempted so far.
C5_AttemptsBounded ==
  /\ SourceFetches <= maxSources(endpoint)
  /\ delays <= maxSources(endpoint)
  /\ Len(sourcePages) <= SourceFetches

\* a seed page with more links than the cap, crawled up to the cap
C5_Witness ==
  /\ Len(seedPage.anchors) > maxSources(endpoint)
  /\ SourceFetches = maxSources(endpoint)
  /\ Len(sourcePages) = maxSources(endpoint)
  /\ pc = "llm"

\* the link is on the site of the seed URL (same registrable domain)
OnDomainOf(link, seed) ==
  /\ link.host # <<>>
  /\ seed.host # <<>>
  /\ link.host[Len(link.host)] = seed.host[Len(seed.host)]

\* C6: no link of the source link list is on the domain of the seed URL of
\* the request, and every anchor target of the seed page that normalizes and
\* is not on that domain is in the list (pages with no more anchors than
\* the cap; for the stream handler the anchors of the content region).
C6_SeedDomainExcluded ==
  InCrawl =>
    /\ \A k \in 1..Len(sourceLinks) : ~OnDomainOf(sourceLinks[k], url)
    /\ Len(seedPage.anchors) <= maxSources(endpoint) =>
         \A k \in 1..Len(seedPage.anchors) :
           LET a == seedPage.anchors[k]
               target == normalizeUrl(a.href, url)
           IN (/\ target # Null
               /\ ~OnDomainOf(target, url)
               /\ (endpoint = "json" \/ ~seedPage.hasContent \/ a.inContent))
                => target \in Range(sourceLinks)

\* C7: the deduplicated list holds every URL once, holds exactly the URLs of
\* the accumulated list, and deduplicating it again returns it unchanged.
C7_DedupUniqueAndIdempotent ==
  AfterCrawl =>
    /\ \A j, k \in 1..Len(uniqueImages) :
         uniqueImages[j].url = uniqueImages[k].url => j = k
    /\ {uniqueImages[k].url : k \in 1..Len(uniqueImages)}
         = {allImages[k].url : k \in 1..Len(allImages)}
    /\ Dedup(uniqueImages) = uniqueImages

\* a run whose accumulated list had duplicates
C7_Witness ==
  /\ AfterCrawl
  /\ Len(uniqueImages) >= 2
  /\ Len(uniqueImages) < Len(allImages)

\* C8: every image candidate has an absolute http(s) URL without fragment
\* whose path ends in one of the raster extensions.
C8_ImageUrlsWellFormed ==
  \A k \in 1..Len(allImages) :
    LET u == allImages[k].url IN
    /\ u.kind = "abs"
    /\ u.scheme \in {"http:", "https:"}
    /\ u.frag = <<>>
    /\ u.path # <<>>
    /\ LowerTok(u.path[Len(u.path)]) \in Range(imageExtensions)

\* the src an extractor reads from an image element
SrcOf(ep, img) == IF ep = "stream" THEN FirstAttr(img) ELSE LastSrcAttr(img)

\* the element states a width or a height under 100 (a stated 0, which the
\* stream handler reads as "not stated", is left out)
StatesUnder(img) ==
  \/ Stated(img.width) \in 1..(MinDimension - 1)
  \/ Stated(img.height) \in 1..(MinDimension - 1)

\* the element states a width and a height of at least 100
StatesBothLarge(img) ==
  /\ Stated(img.width) >= MinDimension
  /\ Stated(img.height) >= MinDimension

\* C9: right after the seed page is extracted (a page with no Open-Graph
\* image and no more image elements than the per-page cap), an element
\* stating a width or height under 100 has contributed no candidate, and an
\* element stating both dimensions at least 100 with an acceptable URL has.
C9_SmallImagesExcluded ==
  (/\ pc = "loop"
   /\ i = 1
   /\ seedPage.og = NoAttr
   /\ Len(seedPage.imgs) <= maxImagesPerPage(endpoint)) =>
    \A k \in 1..Len(seedPage.imgs) :
      LET img == seedPage.imgs[k]
          target == normalizeUrl(SrcOf(endpoint, img), url)
          Returned == \E c \in 1..Len(allImages) : allImages[c].url = target
          OnlySmall ==
            \A m \in 1..Len(seedPage.imgs) :
              normalizeUrl(SrcOf(endpoint, seedPage.imgs[m]), url) = target
                => StatesUnder(seedPage.imgs[m])
      IN /\ (StatesUnder(img) /\ OnlySmall /\ target # Null) => ~Returned
         /\ (/\ StatesBothLarge(img)
             /\ target # Null
             /\ isImageUrl(target)
             /\ ~img.inNav) => Returned

\* C10: a valid JSON document yields its value whether the model returns it
\* bare, in a json fence or in a plain fence, also after prose and also when
\* the document holds a backtick run.
C10_FenceEquivalence ==
  (pc = "done" /\ responseText # <<>>) =>
    \A d \in JsonDocs :
      responseText \in {d, WrapJson(d), WrapPlain(d), Prose \o WrapJson(d),
                        Prose \o WrapPlain(d)}
        => (llmResult = JSONparse(d) /\ payload.kind = "result")


\* ------------------------------------------------------------------------
\* Entities and their image references
\* ------------------------------------------------------------------------
\* the model service answered and its text parsed
Parsed == pc = "done" /\ responseText # <<>> /\ llmResult # ParseError

\* the reference names an element of the deduplicated images
InRange(imgRef) ==
  imgRef.kind = "index" /\ imgRef.image_index \in 0..(Len(uniqueImages) - 1)

\* every image reference the model returned is an object
AllRefsObjects ==
  \A k \in 1..Len(llmEntities) :
    \A r \in 1..Len(llmEntities[k].images) :
      llmEntities[k].images[r].kind \in {"index", "missing"}

\* C11: when the model returns image references whose image_index is
\* negative, too large or missing, the request still succeeds: the result
\* has one entity per returned entity in the same order with its name and
\* description, the in-range references of each entity are kept in order
\* and resolved to the image they name, and the other references are
\* omitted; no error is reported.
C11_OutOfRangeReferenceOmitted ==
  (Parsed /\ AllRefsObjects) =>
    /\ payload.kind = "result"
    /\ Len(payload.entities) = Len(llmEntities)
    /\ \A k \in 1..Len(llmEntities) :
         LET kept == SelectSeq(llmEntities[k].images, InRange)
             shaped == payload.entities[k].images IN
         /\ payload.entities[k].name = llmEntities[k].name
         /\ payload.entities[k].description = llmEntities[k].description
         /\ Len(shaped) = Len(kept)
         /\ \A r \in 1..Len(kept) :
              /\ shaped[r].url = uniqueImages[kept[r].image_index + 1].url
              /\ shaped[r].relevance = kept[r].relevance

\* a finished run whose entity names a too large index before index 0, and
\* whose result keeps only the image of index 0
C11_Witness ==
  /\ Parsed
  /\ payload.kind = "result"
  /\ \E k \in 1..Len(llmEntities) :
       /\ Len(llmEntities[k].images) = 2
       /\ llmEntities[k].images[1].kind = "index"
       /\ llmEntities[k].images[1].image_index >= Len(uniqueImages)
       /\ InRange(llmEntities[k].images[2])
       /\ Len(payload.entities[k].images) = 1
       /\ payload.entities[k].images[1].url = uniqueImages[1].url

\* ------------------------------------------------------------------------
\* Missing credential
\* ------------------------------------------------------------------------
\* a URL was supplied and ANTHROPIC_API_KEY is not set
UrlWithoutKey == bodyOk /\ url.kind # "none" /\ ~apiKey

\* C12: in both analyze endpoints, a request that supplies a URL while the
\* ANTHROPIC_API_KEY credential is absent ends with the error
\* 'ANTHROPIC_API_KEY not configured' and makes no outbound request: no seed
\* fetch, no source fetch (and no delay before one) and no model call.
C12_NoKeyNoOutboundRequest ==
  UrlWithoutKey =>
    /\ pc \in {"start", "done"}
    /\ fetched = <<>>
    /\ delays = 0
    /\ llmCalls = 0
    /\ pc = "done" =>
         /\ payload.kind = "error"
         /\ payload.error = <<"ANTHROPIC_API_KEY not configured">>
         /\ endpoint = "stream" => out = <<Result(payload)>>

\* a finished request that supplied a URL without the credential
C12_Witness ==
  /\ UrlWithoutKey
  /\ url.kind = "abs"
  /\ pc = "done"
  /\ payload.error = <<"ANTHROPIC_API_KEY not configured">>

\* ------------------------------------------------------------------------
\* Shape of the final payload
\* ------------------------------------------------------------------------
\* an object with the single key error
ErrorOnly ==
  /\ payload.kind = "error"
  /\ payload.fields = {"error"}
  /\ payload.error # <<>>
  /\ payload.title = <<>>
  /\ payload.entities = <<>>
  /\ payload.allImages = <<>>

\* a complete AnalysisResult
CompleteResult ==
  /\ payload.kind = "result"
  /\ payload.fields = {"episode", "summary", "entities", "allImages"}
  /\ payload.error = <<>>

\* the run hit a fatal condition: the request was rejected, the seed page
\* was not obtained, the model call failed, its text did not parse, or
\* shaping threw
Fatal ==
  \/ seedOutcome # "ok"
  \/ ~Parsed
  \/ ~AllRefsObjects

\* C13: the final payload of an analyze request is either an object with a
\* single error string and none of episode, summary, entities, allImages,
\* or a complete result (episode, summary, entities, allImages) without an
\* error field; a run that hit a fatal condition returns the error object,
\* with no image or source data gathered before the failure.
C13_ErrorOrCompleteResult ==
  pc = "done" =>
    /\ ErrorOnly \/ CompleteResult
    /\ Fatal => ErrorOnly
    /\ endpoint = "stream" => out[Len(out)] = Result(payload)

\* shaping threw after images had been gathered: only the error is returned
C13_Witness ==
  /\ pc = "done"
  /\ Parsed
  /\ ~AllRefsObjects
  /\ uniqueImages # <<>>
  /\ ErrorOnly

\* ------------------------------------------------------------------------
\* The model call
\* ------------------------------------------------------------------------
\* number of events e in the log
Count(e) == Cardinality({k \in 1..Len(log) : log[k] = e})

\* the seed page was fetched and its body read
SeedRead == Len(log) >= 2 /\ log[1] = "fetch" /\ log[2] = "read"

\* the model was called after deduplication, after every source link was
\* attempted, and nothing was fetched since
CalledLast ==
  /\ Len(log) >= 2
  /\ log[Len(log)] = "llm"
  /\ log[Len(log) - 1] = "dedup"
  /\ i = Len(loopLinks) + 1
  /\ Count("fetch") = 1 + Len(loopLinks)
  /\ Count("read") + Count("fail") = Count("fetch")
  /\ Len(fetched) = 1 + Len(loopLinks)

\* C14 as stated: the model is called at most once, exactly once when the
\* seed fetch succeeds, after every source link was attempted and after
\* deduplication, and no page is fetched after the call.
C14_OnceWhenSeedFetchSucceeds ==
  /\ llmCalls <= 1
  /\ llmCalls = Count("llm")
  /\ (pc = "done" /\ seedOutcome = "ok") => llmCalls = 1
  /\ llmCalls = 1 => CalledLast

\* C14 amended: the model is called at most once per request, exactly once
\* when the seed page was fetched and its body read; the call comes after
\* every source link of the run was attempted (fetched or skipped) and
\* after deduplication, and no page is fetched after it.
C14_OnceWhenSeedRead ==
  /\ llmCalls <= 1
  /\ llmCalls = Count("llm")
  /\ (pc = "done" /\ SeedRead) => llmCalls = 1
  /\ llmCalls = 1 => (SeedRead /\ CalledLast)

\* a finished run that crawled at least two links, skipped one, and called
\* the model once
C14_Witness ==
  /\ pc = "done"
  /\ SeedRead
  /\ Len(loopLinks) >= 2
  /\ skipped # {}
  /\ llmCalls = 1
  /\ CalledLast

\* ------------------------------------------------------------------------
\* The flat image list of the result
\* ------------------------------------------------------------------------
\* the deduplicated images the result lists: all of them in the streaming
\* endpoint, the first JsonMaxAllImages in the non-streaming one
Listed ==
  IF endpoint = "stream" THEN Len(uniqueImages)
  ELSE Min(Len(uniqueImages), JsonMaxAllImages)

\* C15: on every successful request the result's allImages is the
\* deduplicated image list in discovery order (only its first 50 entries in
\* the non-streaming endpoint, all of them in the streaming one); it is a
\* function of the crawl alone, whatever entities and image references the
\* model returned.
C15_AllImagesIsDedupList ==
  (pc = "done" /\ payload.kind = "result") =>
    /\ uniqueImages = Dedup(allImages)
    /\ Len(payload.allImages) = Listed
    /\ \A k \in 1..Listed :
         /\ payload.allImages[k].url = uniqueImages[k].url
         /\ payload.allImages[k].alt = uniqueImages[k].alt
         /\ payload.allImages[k].caption = uniqueImages[k].caption
         /\ payload.allImages[k].sourcePageUrl = uniqueImages[k].sourcePageUrl
         /\ payload.allImages[k].attribution = uniqueImages[k].sourcePageUrl.host

\* a successful non-streaming request with more than 50 unique images
C15_Witness ==
  /\ pc = "done"
  /\ payload.kind = "result"
  /\ endpoint = "json"
  /\ Len(uniqueImages) > JsonMaxAllImages
  /\ Len(payload.allImages) = JsonMaxAllImages

\* ------------------------------------------------------------------------
\* The download endpoint
\* ------------------------------------------------------------------------
\* the fetch or the read of its body threw
DownloadThrew == upstream.kind = "throw"

\* C16: the download endpoint answers 400 with an error and without an
\* outbound fetch when the url parameter is missing; the upstream status
\* with an error body when the upstream response is non-2xx; 500 when the
\* fetch throws; and otherwise the upstream body with a Content-Type equal
\* to the content type of the upstream response.
C16_DownloadAnswers ==
  dlPc = "done" =>
    IF ~imageUrl.given \/ imageUrl.text = <<>>
    THEN reply.status = 400 /\ reply.error # <<>> /\ dlFetches = 0
    ELSE /\ dlFetches = 1
         /\ IF DownloadThrew
            THEN reply.status = 500 /\ reply.error # <<>>
            ELSE IF upstream.status \notin 200..299
                 THEN reply.status = upstream.status /\ reply.error # <<>>
                 ELSE /\ reply.kind = "file"
                      /\ reply.body = upstream.body
                      /\ reply.contentType = upstream.contentType

\* ------------------------------------------------------------------------
\* Order and content of the deduplicated list
\* ------------------------------------------------------------------------
\* position in allImages of the first candidate with this URL
FirstIndex(u) ==
  CHOOSE k \in 1..Len(allImages) :
    /\ allImages[k].url = u
    /\ \A j \in 1..(k - 1) : allImages[j].url # u

\* position of a link in the crawled list
LinkIndex(u) == CHOOSE k \in 1..Len(loopLinks) : loopLinks[k] = u

\* number of candidates the seed page contributed
SeedCount == Len(imagesOf(endpoint, seedPage, url, episodeTitle))

\* C17: deduplication keeps for each URL the whole candidate record of its
\* first occurrence in the accumulated list, and its output is an
\* order-preserving subsequence of that list; in the accumulated list the
\* seed-page images come first and the source-page images follow in the
\* order in which the links were crawled.
C17_FirstOccurrenceInOrder ==
  AfterCrawl =>
    /\ \A j \in 1..Len(uniqueImages) :
         uniqueImages[j] = allImages[FirstIndex(uniqueImages[j].url)]
    /\ \A j \in 1..(Len(uniqueImages) - 1) :
         FirstIndex(uniqueImages[j].url) < FirstIndex(uniqueImages[j + 1].url)
    /\ \A k \in 1..Len(allImages) :
         \E j \in 1..Len(uniqueImages) : uniqueImages[j].url = allImages[k].url
    /\ \A k \in 1..Len(allImages) :
         IF k <= SeedCount THEN allImages[k].sourcePageUrl = url
         ELSE \E n \in 1..Len(loopLinks) : loopLinks[n] = allImages[k].sourcePageUrl
    /\ \A k \in (SeedCount + 1)..(Len(allImages) - 1) :
         LinkIndex(allImages[k].sourcePageUrl)
           <= LinkIndex(allImages[k + 1].sourcePageUrl)

\* a crawl in which an image of the seed page was found again on a source
\* page with another record, and two source pages contributed images
C17_Witness ==
  /\ AfterCrawl
  /\ SeedCount >= 1
  /\ \E j, k \in 1..Len(allImages) :
       /\ j <= SeedCount /\ k > SeedCount
       /\ allImages[j].url = allImages[k].url
       /\ allImages[j] # allImages[k]
  /\ \E j, k \in (SeedCount + 1)..Len(allImages) :
       allImages[j].sourcePageUrl # allImages[k].sourcePageUrl

\* ------------------------------------------------------------------------
\* Fetches of one run
\* ------------------------------------------------------------------------
\* C18: within one analyze request no URL is fetched more than once: the
\* seed URL is fetched once, each source link at most once, and a link that
\* failed is not fetched again.
C18_NoUrlFetchedTwice ==
  \A j, k \in 1..Len(fetched) : fetched[j] = fetched[k] => j = k

\* ------------------------------------------------------------------------
\* Sequential, delayed crawling
\* ------------------------------------------------------------------------
\* fetches issued and not yet finished (response read, or abandoned)
InFlight == Count("fetch") - (Count("read") + Count("fail"))

\* C19: at most one page fetch is in flight at any time; the source links
\* are fetched in list order; every source fetch, the first one and the one
\* after a skipped link included, starts right after a delay that began
\* after the previous fetch (seed or source) had finished.
C19_OneFetchAtATimeAfterDelay ==
  /\ InFlight \in {0, 1}
  /\ fetched # <<>> => fetched[1] = url
  /\ \A k \in 2..Len(fetched) : fetched[k] = loopLinks[k - 1]
  /\ \A p \in 2..Len(log) :
       /\ log[p] = "fetch" =>
            (p >= 3 /\ log[p - 1] = "delay" /\ log[p - 2] \in {"read", "fail"})
       /\ log[p] = "delay" => log[p - 1] \in {"read", "fail"}
  /\ delays = Count("delay")
  /\ Count("fetch") = Len(fetched)

\* a run in which a source fetch followed a skipped link and another
\* followed a page that was read
C19_Witness ==
  /\ pc = "done"
  /\ \E p \in 3..(Len(log) - 2) :
       log[p] = "fail" /\ log[p + 1] = "delay" /\ log[p + 2] = "fetch"
  /\ \E p \in 3..(Len(log) - 2) :
       log[p] = "read" /\ log[p + 1] = "delay" /\ log[p + 2] = "fetch"

\* ------------------------------------------------------------------------
\* Size of the prompt
\* ------------------------------------------------------------------------
\* C20: every text field interpolated into the prompt (episode title,
\* episode text, title and text of each source page, alt, caption, context
\* and source title of each image candidate) is cut to a fixed maximum
\* length, here the largest length any slice of the code cuts to, so that
\* the prompt is bounded whatever the fetched pages contain.
C20_PromptFieldsBounded ==
  AfterCrawl =>
    /\ Len(prompt.episodeTitle) <= LargestCap
    /\ prompt.episodeText <= LargestCap
    /\ \A k \in 1..Len(prompt.sources) :
         /\ Len(prompt.sources[k].title) <= LargestCap
         /\ prompt.sources[k].text <= LargestCap
    /\ \A k \in 1..Len(prompt.images) :
         /\ Len(prompt.images[k].alt) <= LargestCap
         /\ Len(prompt.images[k].caption) <= LargestCap
         /\ prompt.images[k].context <= LargestCap
         /\ Len(prompt.images[k].sourcePageTitle) <= LargestCap

\* ------------------------------------------------------------------------
\* Per-page cap and the Open-Graph image
\* ------------------------------------------------------------------------
\* the page without its Open-Graph meta tag
WithoutOg(page) == [page EXCEPT !.og = NoAttr]

\* the candidates of a page respect the cap, and they are the candidates of
\* its image elements, followed by the Open-Graph image only when those are
\* fewer than the cap
PageCapped(ep, page, pageUrl, pageTitle) ==
  LET all == imagesOf(ep, page, pageUrl, pageTitle)
      elements == imagesOf(ep, WithoutOg(page), pageUrl, pageTitle)
  IN /\ Len(all) <= maxImagesPerPage(ep)
     /\ \/ all = elements
        \/ /\ Len(elements) < maxImagesPerPage(ep)
           /\ all = Append(elements, all[Len(all)])
           /\ all[Len(all)].url = normalizeUrl(page.og, pageUrl)

\* the title handed to the image extractor for a source page
SourceTitleOf(ep, page) ==
  IF ep = "stream" THEN StreamSourceTitle(page) ELSE extractTitle(page)

\* C21: each page extraction returns at most maxImagesPerPage candidates
\* (8 streaming, 6 non-streaming); the Open-Graph image is appended, as the
\* last candidate, only when fewer than the cap were found among the image
\* elements; the accumulated list of a run never holds more than
\* maxImagesPerPage * (1 + maxSources) entries.
C21_PerPageCap ==
  (InCrawl \/ AfterCrawl) =>
    /\ PageCapped(endpoint, seedPage, url, episodeTitle)
    /\ (pc = "loop" /\ i > 1 /\ (i - 1) \notin skipped) =>
         PageCapped(endpoint, Web(loopLinks[i - 1]), loopLinks[i - 1],
                    SourceTitleOf(endpoint, Web(loopLinks[i - 1])))
    /\ Len(allImages) <= maxImagesPerPage(endpoint) * (1 + Len(sourcePages))
    /\ Len(sourcePages) <= maxSources(endpoint)

\* a finished run whose seed page has more image elements than the cap and a
\* usable Open-Graph image: exactly cap candidates, the Open-Graph image not
\* among them
C21_Witness ==
  /\ pc = "done"
  /\ AfterCrawl
  /\ seedPage.og.kind = "abs"
  /\ Len(imagesOf(endpoint, WithoutOg(seedPage), url, episodeTitle))
       = maxImagesPerPage(endpoint)
  /\ Len(allImages) = maxImagesPerPage(endpoint)
  /\ \A k \in 1..Len(allImages) : allImages[k].url # seedPage.og

\* ------------------------------------------------------------------------
\* The source link list of the seed page
\* ------------------------------------------------------------------------
\* positions of the seed page's anchors that satisfy Sel and point to u
AnchorHits(u, Sel(_)) ==
  {k \in 1..Len(seedPage.anchors) :
     /\ Sel(seedPage.anchors[k])
     /\ normalizeUrl(seedPage.anchors[k].href, url) = u}

\* smallest element of a non-empty set of numbers, 0 for the empty set
Least(S) == IF S = {} THEN 0 ELSE CHOOSE k \in S : \A j \in S : k <= j

\* the anchor lies in the main content region (in the body when the page has
\* no such region)
InMainRegion(a) == ~seedPage.hasContent \/ a.inContent

\* the anchor's parent element mentions "source" or "reference"
InSourceSection(a) == a.parentSource

AnyAnchor(a) == TRUE

NoDuplicateLink ==
  \A j, k \in 1..Len(sourceLinks) : sourceLinks[j] = sourceLinks[k] => j = k

\* C22 (as stated): the source link list holds only targets of anchors inside
\* the main content region when one exists (of the whole document otherwise),
\* has no duplicate, lists the links in the order of their first appearance
\* in the document, and has at most maxSources entries.
C22_OnlyContentRegionAnchors ==
  SeedRead =>
    /\ \A k \in 1..Len(sourceLinks) :
         AnchorHits(sourceLinks[k], InMainRegion) # {}
    /\ NoDuplicateLink
    /\ \A k \in 1..(Len(sourceLinks) - 1) :
         Least(AnchorHits(sourceLinks[k], AnyAnchor))
           < Least(AnchorHits(sourceLinks[k + 1], AnyAnchor))
    /\ Len(sourceLinks) <= maxSources(endpoint)

\* the anchors an endpoint takes links from
Listable(a) ==
  IF endpoint = "stream" THEN InMainRegion(a) \/ InSourceSection(a)
  ELSE TRUE

\* the place of a link in the list: streaming lists the targets of the
\* region's anchors first and the other source-section targets after them
LinkRank(u) ==
  IF endpoint = "stream"
  THEN IF AnchorHits(u, InMainRegion) # {}
       THEN Least(AnchorHits(u, InMainRegion))
       ELSE Len(seedPage.anchors) + Least(AnchorHits(u, InSourceSection))
  ELSE Least(AnchorHits(u, AnyAnchor))

\* C22 (amended): every listed link is the normalized target, outside
\* casefilepodcast.com, of an anchor the endpoint takes links from: any anchor
\* of the document (non-streaming); an anchor of the main content region (of
\* the body when there is none) or an anchor anywhere whose parent mentions
\* source / reference (streaming).  The list has no duplicate, at most
\* maxSources entries, and is ordered by first appearance, streaming listing
\* the region's links before the remaining source-section links.
C22_SourceLinks ==
  SeedRead =>
    /\ \A k \in 1..Len(sourceLinks) :
         /\ AnchorHits(sourceLinks[k], Listable) # {}
         /\ ~IsCasefileLink(sourceLinks[k])
    /\ NoDuplicateLink
    /\ \A k \in 1..(Len(sourceLinks) - 1) :
         LinkRank(sourceLinks[k]) < LinkRank(sourceLinks[k + 1])
    /\ Len(sourceLinks) <= maxSources(endpoint)

\* streaming, a page with a content region: a link of the region is listed
\* before a source-section link that stands outside the region
C22_Witness ==
  /\ SeedRead
  /\ endpoint = "stream"
  /\ seedPage.hasContent
  /\ Len(sourceLinks) = 2
  /\ AnchorHits(sourceLinks[1], InMainRegion) # {}
  /\ AnchorHits(sourceLinks[2], InMainRegion) = {}
  /\ AnchorHits(sourceLinks[2], InSourceSection) # {}

\* ------------------------------------------------------------------------
\* The list of source page records
\* ------------------------------------------------------------------------
\* the outcomes ("read" or "fail") of the source links attempted so far, in
\* the order of the attempts
SourceOutcomes ==
  LET IsOutcome(e) == e \in {"read", "fail"}
  IN SelectSeq(SubSeq(log, 3, Len(log)), IsOutcome)

\* the attempted links whose page was fetched as HTML and read, in order
ReadLinks ==
  LET attempts == [k \in 1..Len(SourceOutcomes) |-> k]
      WasRead(k) == SourceOutcomes[k] = "read"
      read == SelectSeq(attempts, WasRead)
  IN [k \in 1..Len(read) |-> loopLinks[read[k]]]

MaxSourceText == 4000

SourcePagesMatchReadLinks ==
  (SeedRead /\ (InCrawl \/ AfterCrawl)) =>
    /\ Len(SourceOutcomes) <= Len(loopLinks)
    /\ Len(sourcePages) = Len(ReadLinks)
    /\ \A k \in 1..Len(sourcePages) :
         /\ sourcePages[k].url = ReadLinks[k]
         /\ sourcePages[k].text <= MaxSourceText

SourcePagesOnlyGrow ==
  /\ Len(sourcePages') >= Len(sourcePages)
  /\ \A k \in 1..Len(sourcePages) : sourcePages'[k] = sourcePages[k]

\* C23: at every point of the crawl loop, sourcePages is an order-preserving
\* subsequence of the links attempted so far, with exactly one record for
\* each link whose fetch returned 2xx with an HTML content type and whose
\* body was read, and none for any other link; each record's text has at
\* most 4000 characters, and a record is never changed or removed after it
\* is appended.
C23_SourcePagesAppendOnly ==
  []SourcePagesMatchReadLinks /\ [][SourcePagesOnlyGrow]_vars

\* four links attempted, the second and the third abandoned, the first and
\* the last recorded, one of them with a text cut at the cap
C23_Witness ==
  /\ InCrawl
  /\ Len(SourceOutcomes) = 4
  /\ SourceOutcomes = <<"read", "fail", "fail", "read">>
  /\ Len(sourcePages) = 2
  /\ sourcePages[2].url = loopLinks[4]
  /\ \E k \in 1..2 : /\ sourcePages[k].text = MaxSourceText
                     /\ Web(sourcePages[k].url).text > MaxSourceText

\* ------------------------------------------------------------------------
\* A model text that does not parse
\* ------------------------------------------------------------------------
\* the request ended on a model text that JSON.parse rejected
Unparsable ==
  pc = "done" /\ responseText # <<>> /\ llmResult = ParseError

\* C24: when the model's text is not valid JSON after code-fence stripping,
\* the request ends with an error response whose message is a fixed generic
\* string that contains neither the model output nor the parser's exception
\* text; no AnalysisResult is returned, the model is not called again and
\* the text is not repaired.
C24_UnparsableGenericError ==
  Unparsable =>
    /\ ErrorOnly
    /\ ~Includes(payload.error, ParseError)
    /\ ~Includes(payload.error, responseText)
    /\ llmCalls = 1
    /\ ParseResponse(responseText) = ParseError

\* ------------------------------------------------------------------------
\* Termination
\* ------------------------------------------------------------------------
\* the request waits for a response body with no timer armed: streaming,
\* fetchWithTimeout clears its timer as soon as the headers arrive, so the
\* later await response.text() is not covered; non-streaming, the fetch of the
\* model service carries no signal at all, so neither is anthropicResponse.json()
Untimed ==
  \/ endpoint = "stream" /\ pc \in {"seedBody", "srcBody"}
  \/ endpoint = "json" /\ pc = "llm"

\* a step the runtime is bound to take: a synchronous step, a timer, a fetch
\* awaited under an armed timeout (it delivers headers, fails or is aborted),
\* a body read under AbortSignal.timeout, a model call through the SDK client
TimedStep == ~Untimed /\ Next

LiveSpec == Init /\ [][Next]_vars /\ WF_vars(TimedStep)

\* C25: every analyze request eventually reaches a final state in which
\* exactly one final payload (result or error) has been delivered, assuming
\* only that every outbound fetch delivers response headers, fails or hits
\* its timeout.
C25_EventuallyOnePayload ==
  <>(pc = "done" /\ payload # NoPayload /\ payload.kind \in {"result", "error"})

\* ------------------------------------------------------------------------
\* Entity images and the flat image list
\* ------------------------------------------------------------------------
\* C26: in every successful result, each image embedded in an entity also
\* appears in the result's allImages list (same URL), for every model
\* response and every number of discovered images, in both endpoints.
C26_EntityImagesListed ==
  (pc = "done" /\ payload.kind = "result") =>
    \A k \in 1..Len(payload.entities) :
      \A r \in 1..Len(payload.entities[k].images) :
        \E j \in 1..Len(payload.allImages) :
          payload.allImages[j].url = payload.entities[k].images[r].url

\* ------------------------------------------------------------------------
\* Image labels of the prompt and image_index
\* ------------------------------------------------------------------------
\* the label IMG_i of the prompt (0-based) names a listed image
ListedInPrompt(index) == index >= 0 /\ index < Len(prompt.images)

\* C27: the label IMG_i shown to the model and the index used to resolve
\* image_index denote the same image: for every i, IMG_i in the prompt is
\* uniqueImages[i], and every image_index that resolves to an image during
\* shaping is the index of an image that was listed in the prompt.
C27_ResolvedIndexWasListed ==
  (pc = "done" /\ payload.kind = "result") =>
    /\ \A k \in 1..Len(prompt.images) :
         /\ k <= Len(uniqueImages)
         /\ prompt.images[k].url = uniqueImages[k].url
    /\ \A k \in 1..Len(llmEntities) :
         \A r \in 1..Len(llmEntities[k].images) :
           LET imgRef == llmEntities[k].images[r] IN
           Resolve(uniqueImages, imgRef) # Undefined =>
             /\ ListedInPrompt(imgRef.image_index)
             /\ prompt.images[imgRef.image_index + 1].url
                  = Resolve(uniqueImages, imgRef).url

====
